---- MODULE Spec2Model ----
(***************************************************************************)
(* Model of the dependency-graph and change-impact engine of ai-pilot:     *)
(*   DependencyTracer (analyzeImpact, analyzeDependencies,                 *)
(*   analyzeDependents, resolveImportPath, determineFileType) and          *)
(*   GitDiffAnalyzer  (getChangedLines, locateAffectedBlocks,              *)
(*   findCodeBlockAtLine), both in src/src/core/diff-analyzer.ts.          *)
(* Strings on which the code does character work (paths, specifiers, diff  *)
(* lines) are sequences of one-character strings.                          *)
(***************************************************************************)
EXTENDS Integers, Sequences, FiniteSets, TLC

----------------------------------------------------------------------------
(* String primitives of JavaScript, on sequences of characters.            *)

\* Value(e, LAMBDA v : ...) binds the value of e to v, so that e is
\* evaluated once however often the body reads it.
Value(e, Body(_)) == CHOOSE r \in {Body(v) : v \in {e}} : TRUE

startsWith(s, p) ==
    /\ Len(p) <= Len(s)
    /\ SubSeq(s, 1, Len(p)) = p

endsWith(s, p) ==
    /\ Len(p) <= Len(s)
    /\ SubSeq(s, Len(s) - Len(p) + 1, Len(s)) = p

includes(str, p) ==
    Value(str, LAMBDA s : \E i \in 0..(Len(s) - Len(p)) : SubSeq(s, i + 1, i + Len(p)) = p)

substring(s, from) == SubSeq(s, from + 1, Len(s))

UpperCase ==
    <<"A", "B", "C", "D", "E", "F", "G", "H", "I", "J", "K", "L", "M", "N", "O", "P",
      "Q", "R", "S", "T", "U", "V", "W", "X", "Y", "Z">>

LowerCase ==
    <<"a", "b", "c", "d", "e", "f", "g", "h", "i", "j", "k", "l", "m", "n", "o", "p",
      "q", "r", "s", "t", "u", "v", "w", "x", "y", "z">>

isUpper(ch) == \E i \in 1..26 : UpperCase[i] = ch

isLower(ch) == \E i \in 1..26 : LowerCase[i] = ch

toLowerChar(ch) ==
    IF isUpper(ch) THEN LowerCase[CHOOSE i \in 1..26 : UpperCase[i] = ch] ELSE ch

toLowerCase(s) == [i \in 1..Len(s) |-> toLowerChar(s[i])]

Digits == <<"0", "1", "2", "3", "4", "5", "6", "7", "8", "9">>

isDigit(ch) == \E d \in 1..10 : Digits[d] = ch

digitValue(ch) == (CHOOSE d \in 1..10 : Digits[d] = ch) - 1

----------------------------------------------------------------------------
(* Node's path module, POSIX flavour.                                      *)

firstIndex(S) == CHOOSE i \in S : \A j \in S : i <= j

\* s.split('/')
RECURSIVE splitPath(_)
splitPath(str) ==
    Value(str, LAMBDA s :
        IF s = <<>> THEN <<>>
        ELSE Value({i \in 1..Len(s) : s[i] = "/"}, LAMBDA slashes :
                IF slashes = {} THEN <<s>>
                ELSE Value(firstIndex(slashes), LAMBDA k :
                        <<SubSeq(s, 1, k - 1)>> \o splitPath(SubSeq(s, k + 1, Len(s))))))

RECURSIVE normalizeSegments(_, _)
normalizeSegments(segments, done) ==
    Value(<<segments, done>>, LAMBDA a :
        LET segs == a[1]
            acc == a[2]
        IN  IF segs = <<>> THEN acc
            ELSE LET h == Head(segs)
                     t == Tail(segs)
                 IN  IF h = <<>> \/ h = <<".">> THEN normalizeSegments(t, acc)
                     ELSE IF h = <<".", ".">>
                          THEN normalizeSegments(t, IF acc = <<>> THEN acc
                                                    ELSE SubSeq(acc, 1, Len(acc) - 1))
                          ELSE normalizeSegments(t, Append(acc, h)))

RECURSIVE joinSegments(_)
joinSegments(segments) ==
    Value(segments, LAMBDA segs :
        IF segs = <<>> THEN <<>>
        ELSE <<"/">> \o Head(segs) \o joinSegments(Tail(segs)))

absoluteOf(segments) ==
    Value(segments, LAMBDA segs : IF segs = <<>> THEN <<"/">> ELSE joinSegments(segs))

isAbsolute(p) == startsWith(p, <<"/">>)

pathResolve(dir, spec) ==
    IF isAbsolute(spec)
    THEN absoluteOf(normalizeSegments(splitPath(spec), <<>>))
    ELSE absoluteOf(normalizeSegments(splitPath(dir \o <<"/">> \o spec), <<>>))

pathJoin(a, b) == absoluteOf(normalizeSegments(splitPath(a \o <<"/">> \o b), <<>>))

dirname(p) ==
    Value(normalizeSegments(splitPath(p), <<>>), LAMBDA segs :
        absoluteOf(SubSeq(segs, 1, Len(segs) - 1)))

basename(p) ==
    Value(splitPath(p), LAMBDA segs : IF segs = <<>> THEN <<>> ELSE segs[Len(segs)])

commonPrefixLen(a, b) ==
    Cardinality({k \in 1..Len(a) : k <= Len(b) /\ SubSeq(a, 1, k) = SubSeq(b, 1, k)})

relSegments(segments) ==
    Value(segments, LAMBDA segs : IF segs = <<>> THEN <<>> ELSE Tail(joinSegments(segs)))

pathRelative(from, to) ==
    Value(<<normalizeSegments(splitPath(from), <<>>), normalizeSegments(splitPath(to), <<>>)>>,
          LAMBDA ft :
            Value(commonPrefixLen(ft[1], ft[2]), LAMBDA k :
                relSegments([i \in 1..(Len(ft[1]) - k) |-> <<".", ".">>]
                            \o SubSeq(ft[2], k + 1, Len(ft[2])))))

----------------------------------------------------------------------------
(* The projects on disk.  A file is a record: its absolute path, its       *)
(* import declarations in source order, its exported declarations in the   *)
(* order extractExports lists them, and the needles its text contains.     *)
(* The order of a project's files is the order of the globby listing.      *)

None == <<>>

rootPath == <<"/", "p">>

Src == <<"s", "r", "c">>

DotTs == <<".", "t", "s">>

SrcFile(name) == rootPath \o <<"/">> \o Src \o <<"/">> \o name \o DotTs

Rel(name) == <<".", "/">> \o name

NamedImport(spec, names) == [spec |-> spec, def |-> "", named |-> names, ns |-> FALSE]

DefaultImport(spec, d, names) == [spec |-> spec, def |-> d, named |-> names, ns |-> FALSE]

NamespaceImport(spec) == [spec |-> spec, def |-> "", named |-> <<>>, ns |-> TRUE]

BareImport(spec) == [spec |-> spec, def |-> "", named |-> <<>>, ns |-> FALSE]

Fn(n) == [name |-> n, type |-> "function"]

SourceText(p, imps, exps) ==
    [path |-> p, imports |-> imps, exports |-> exps, has |-> {}, readable |-> TRUE]

\* a file that is listed and exists but cannot be read (EACCES)
Unreadable(p) ==
    [path |-> p, imports |-> <<>>, exports |-> <<>>, has |-> {}, readable |-> FALSE]

\* a -> b -> c -> d -> e -> f, one named import each
ChainProject ==
    << SourceText(SrcFile(<<"a">>), <<NamedImport(Rel(<<"b">>), <<"fb">>)>>, <<Fn("fa")>>),
       SourceText(SrcFile(<<"b">>), <<NamedImport(Rel(<<"c">>), <<"fc">>)>>, <<Fn("fb")>>),
       SourceText(SrcFile(<<"c">>), <<NamedImport(Rel(<<"d">>), <<"fd">>)>>, <<Fn("fc")>>),
       SourceText(SrcFile(<<"d">>), <<NamedImport(Rel(<<"e">>), <<"fe">>)>>, <<Fn("fd")>>),
       SourceText(SrcFile(<<"e">>), <<NamedImport(Rel(<<"f">>), <<"ff">>)>>, <<Fn("fe")>>),
       SourceText(SrcFile(<<"f">>), <<>>, <<Fn("ff")>>) >>

\* a -> b, a -> c, b -> c, b -> a, c -> a : a cycle and a diamond
CycleProject ==
    << SourceText(SrcFile(<<"a">>),
                  <<NamedImport(Rel(<<"b">>), <<"b1">>), NamedImport(Rel(<<"c">>), <<"c1">>)>>,
                  <<Fn("a1"), Fn("a2"), Fn("a3")>>),
       SourceText(SrcFile(<<"b">>),
                  <<NamedImport(Rel(<<"c">>), <<"c2">>), NamedImport(Rel(<<"a">>), <<"a1">>)>>,
                  <<Fn("b1")>>),
       SourceText(SrcFile(<<"c">>),
                  <<NamedImport(Rel(<<"a">>), <<"a2">>)>>,
                  <<Fn("c1"), Fn("c2")>>) >>

\* every form of import clause, an alias, a package and a missing file
FormsProject ==
    << SourceText(SrcFile(<<"a">>), <<NamespaceImport(Rel(<<"b">>))>>, <<>>),
       SourceText(SrcFile(<<"b">>), <<>>,
                  <<Fn("x"), Fn("y"), [name |-> "default", type |-> "default"]>>),
       SourceText(SrcFile(<<"c">>), <<BareImport(Rel(<<"b">>))>>, <<>>),
       SourceText(SrcFile(<<"d">>), <<DefaultImport(Rel(<<"b">>), "Def", <<"x">>)>>, <<>>),
       SourceText(SrcFile(<<"e">>), <<NamedImport(<<"@", "/", "b">>, <<"y">>)>>, <<>>),
       SourceText(SrcFile(<<"f">>),
                  <<NamedImport(<<"r", "e", "a", "c", "t">>, <<"useState">>),
                    NamedImport(Rel(<<"m">>), <<"z">>),
                    NamedImport(Rel(<<"b">>), <<"x">>),
                    \* import { x as x2 } from '@/b'
                    NamedImport(<<"@", "/", "b">>, <<"x">>)>>, <<>>) >>

\* files outside src/ and outside the root, and an import of a directory
OutsideProject ==
    << SourceText(SrcFile(<<"a">>),
                  <<NamedImport(<<".", ".", "/", ".", ".", "/", "p", "2", "/", "y">>, <<"y1">>),
                    NamedImport(<<".", ".", "/", "l", "/", "x">>, <<"x1">>)>>,
                  <<Fn("a1")>>),
       SourceText(SrcFile(<<"d">>), <<NamedImport(Rel(<<"k">>), <<"i1">>)>>, <<>>),
       SourceText(SrcFile(<<"k", "/", "i", "n", "d", "e", "x">>), <<>>, <<Fn("i1")>>),
       SourceText(rootPath \o <<"/", "l", "/", "x">> \o DotTs,
                  <<NamedImport(<<".", ".", "/", "s", "r", "c", "/", "a">>, <<"a1">>)>>,
                  <<Fn("x1")>>),
       SourceText(<<"/", "p", "2", "/", "y">> \o DotTs, <<>>, <<Fn("y1")>>) >>

\* a -> b, and a file u.ts that cannot be read
UnreadableProject ==
    << SourceText(SrcFile(<<"a">>), <<NamedImport(Rel(<<"b">>), <<"fb">>)>>, <<>>),
       Unreadable(SrcFile(<<"u">>)),
       SourceText(SrcFile(<<"b">>), <<>>, <<Fn("fb")>>),
       SourceText(SrcFile(<<"c">>), <<NamedImport(Rel(<<"b">>), <<"fb">>)>>, <<>>) >>

\* a package specifier that names a file next to the importer:
\* import { debounce } from 'lodash' beside src/lodash.ts
PackageProject ==
    << SourceText(SrcFile(<<"a">>),
                  <<NamedImport(<<"l", "o", "d", "a", "s", "h">>, <<"debounce">>)>>,
                  <<Fn("fa")>>),
       SourceText(SrcFile(<<"l", "o", "d", "a", "s", "h">>), <<>>, <<Fn("chunk")>>),
       SourceText(SrcFile(<<"m">>), <<NamedImport(Rel(<<"a">>), <<"fa">>)>>, <<>>) >>

\* dependencies whose names and texts meet the rules of determineFileType
RolesProject ==
    << SourceText(SrcFile(<<"a">>),
                  <<NamedImport(Rel(<<"u", "s", "e", "A", "u", "t", "h">>), <<"useAuth">>),
                    NamedImport(Rel(<<"a", "p", "i", "T", "y", "p", "e", "s">>), <<"Api">>),
                    NamedImport(Rel(<<"t", "y", "p", "e", "U", "t", "i", "l">>), <<"T">>),
                    NamedImport(Rel(<<"v">>), <<"View">>),
                    NamedImport(Rel(<<"h", "e", "l", "p", "e", "r">>), <<"h">>)>>,
                  <<>>),
       SourceText(SrcFile(<<"u", "s", "e", "A", "u", "t", "h">>), <<>>, <<Fn("useAuth")>>),
       SourceText(SrcFile(<<"a", "p", "i", "T", "y", "p", "e", "s">>), <<>>, <<Fn("Api")>>),
       SourceText(SrcFile(<<"t", "y", "p", "e", "U", "t", "i", "l">>), <<>>, <<Fn("T")>>),
       [SourceText(SrcFile(<<"v">>), <<>>, <<Fn("View")>>)
           EXCEPT !.has = {"return (", "<", "/>"}],
       SourceText(SrcFile(<<"h", "e", "l", "p", "e", "r">>), <<>>, <<Fn("h")>>) >>

Projects ==
    {ChainProject, CycleProject, FormsProject, OutsideProject, UnreadableProject,
     PackageProject, RolesProject}

Range(seq) == {seq[i] : i \in 1..Len(seq)}

FilePaths(d) == {d[i].path : i \in 1..Len(d)}

FileAt(d, p) == d[CHOOSE i \in 1..Len(d) : d[i].path = p]

isFile(d, p) == p \in FilePaths(d)

isDirectory(d, p) ==
    \E f \in FilePaths(d) : Len(p) < Len(f) /\ (p = <<"/">> \/ startsWith(f, p \o <<"/">>))

existsSync(d, p) == isFile(d, p) \/ isDirectory(d, p)

\* fs.readFileSync and project.addSourceFileAtPath succeed on p
canRead(d, p) == isFile(d, p) /\ FileAt(d, p).readable

alwaysExists(d, p) == TRUE

pathExists(d, p) == existsSync(d, p)

\* the file paths handed to analyzeImpact
MissingFile == SrcFile(<<"z">>)

Targets(d) == {p \in FilePaths(d) : startsWith(p, rootPath \o <<"/">>)} \cup {MissingFile}

----------------------------------------------------------------------------
(* DependencyTracer                                                        *)

MaxCalls == 2

maxDepth == 3

CallIds == 1..MaxCalls

VARIABLES disk, cache, visited, calls

tracerVars == <<disk, cache, visited, calls>>

VARIABLES hunks, stdout, gitPc, lineIdx, currentLine, changedLines, relIdx, blocks,
          processedBlocks

VARIABLES repo, staged, fileIdx, analysis, gitError, issued

\* the state of analyzeStagedChanges around the analysis of one file
stagingVars == <<repo, staged, fileIdx, analysis, gitError, issued>>

diffVars == <<hunks, stdout, gitPc, lineIdx, currentLine, changedLines, relIdx, blocks,
              processedBlocks, stagingVars>>

VARIABLES userInput, projectMap, keywords, matches, finderPc

finderVars == <<userInput, projectMap, keywords, matches, finderPc>>

VARIABLES sourceLines, comments, commentIdx, aiTasks, hydratorPc

hydratorVars == <<sourceLines, comments, commentIdx, aiTasks, hydratorPc>>

vars == <<tracerVars, diffVars, finderVars, hydratorVars>>

\* what the steps of one component leave alone
exceptTracer == <<diffVars, finderVars, hydratorVars>>

exceptDiff == <<tracerVars, finderVars, hydratorVars>>

exceptFinder == <<tracerVars, diffVars, hydratorVars>>

exceptHydrator == <<tracerVars, diffVars, finderVars>>

\* the analyzer is not in use while the tracer is exercised, and conversely
DiffParked ==
    /\ hunks = <<>>
    /\ stdout = <<>>
    /\ gitPc = "parked"
    /\ lineIdx = 0
    /\ currentLine = 0
    /\ changedLines = <<>>
    /\ relIdx = 0
    /\ blocks = <<>>
    /\ processedBlocks = {}
    /\ repo = FALSE
    /\ staged = <<>>
    /\ fileIdx = 0
    /\ analysis = [fileChanges |-> <<>>, summary |-> [added |-> 0, modified |-> 0, deleted |-> 0]]
    /\ gitError = ""
    /\ issued = <<>>

TracerParked ==
    /\ disk = <<>>
    /\ cache = {}
    /\ visited = {}
    /\ calls = <<>>

FinderParked ==
    /\ userInput = <<>>
    /\ projectMap = [files |-> <<>>, set |-> FALSE]
    /\ keywords = <<>>
    /\ matches = <<>>
    /\ finderPc = "parked"

HydratorParked ==
    /\ sourceLines = <<>>
    /\ comments = <<>>
    /\ commentIdx = 0
    /\ aiTasks = <<>>
    /\ hydratorPc = "parked"

possibleExtensions ==
    << <<>>, <<".", "t", "s">>, <<".", "t", "s", "x">>, <<".", "j", "s">>,
       <<".", "j", "s", "x">>,
       <<"/", "i", "n", "d", "e", "x", ".", "t", "s">>,
       <<"/", "i", "n", "d", "e", "x", ".", "t", "s", "x">>,
       <<"/", "i", "n", "d", "e", "x", ".", "j", "s">>,
       <<"/", "i", "n", "d", "e", "x", ".", "j", "s", "x">> >>

AliasPrefix == <<"@", "/">>

\* resolution that returns the first probed path without looking at the disk
resolveUnchecked(d, currentDir, moduleSpecifier) == pathResolve(currentDir, moduleSpecifier)

resolveImportPath(d, currentDir, moduleSpecifier) ==
    LET aliased == startsWith(moduleSpecifier, AliasPrefix)
        specifier == IF aliased
                     THEN Src \o <<"/">> \o substring(moduleSpecifier, Len(AliasPrefix))
                     ELSE moduleSpecifier
        dir == IF aliased THEN rootPath ELSE currentDir
    IN  Value([i \in 1..Len(possibleExtensions) |->
                  pathResolve(dir, specifier \o possibleExtensions[i])],
              LAMBDA fullPath :
                Value({i \in 1..Len(possibleExtensions) : existsSync(d, fullPath[i])},
                      LAMBDA hits : IF hits = {} THEN None ELSE fullPath[firstIndex(hits)]))

isLocalSpecifier(moduleSpecifier) ==
    startsWith(moduleSpecifier, <<".">>) \/ startsWith(moduleSpecifier, <<"/">>)

hasAny(s, needles) == \E n \in needles : includes(s, n)

\* fileName.match(/use[A-Z]/)
matchesUseUpper(s) ==
    \E i \in 1..(Len(s) - 3) :
        /\ SubSeq(s, i, i + 2) = <<"u", "s", "e">>
        /\ isUpper(s[i + 3])

determineFileType(d, filePath) ==
    Value(<<toLowerCase(basename(filePath)), FileAt(d, filePath).has>>, LAMBDA fc :
    LET fileName == fc[1]
        content == fc[2]
    IN  IF startsWith(fileName, <<"u", "s", "e">>) /\ matchesUseUpper(fileName)
        THEN "hook"
        ELSE IF endsWith(filePath, <<".", "t", "s", "x">>) \/ endsWith(filePath, <<".", "j", "s", "x">>)
        THEN "component"
        ELSE IF "return (" \in content /\ "<" \in content /\ "/>" \in content
        THEN "component"
        ELSE IF hasAny(fileName, {<<"s", "e", "r", "v", "i", "c", "e">>, <<"a", "p", "i">>,
                                  <<"c", "l", "i", "e", "n", "t">>})
        THEN "service"
        ELSE IF includes(fileName, <<"t", "y", "p", "e">>) \/ endsWith(fileName, <<".", "d", ".", "t", "s">>)
        THEN "type"
        ELSE IF hasAny(fileName, {<<"u", "t", "i", "l">>, <<"h", "e", "l", "p", "e", "r">>,
                                  <<"t", "o", "o", "l">>})
        THEN "util"
        ELSE "other")

\* default import first, then the named imports (lines 666-673, 724-732)
importedNames(imp) ==
    (IF imp.def # "" THEN <<imp.def>> ELSE <<>>) \o imp.named

extractExports(d, filePath) ==
    LET exps == FileAt(d, filePath).exports
    IN  [i \in 1..Len(exps) |->
            [name |-> exps[i].name, type |-> exps[i].type, isUsedExternally |-> FALSE]]

keepVisited(v) == v

\* this.visited.clear() (line 546)
clearVisited(v) == {}

neverVisited(v, filePath) == FALSE

\* this.visited.has(filePath) (line 644)
alreadyVisited(v, filePath) == filePath \in v

tooDeep(depth) == depth > maxDepth

mayRecurse(depth) == depth < maxDepth

Frame(filePath, depth) == [file |-> filePath, depth |-> depth, idx |-> 1, entered |-> FALSE]

IdleCall ==
    [pc |-> "idle", filePath |-> None, absolutePath |-> None, stack |-> <<>>,
     exports |-> <<>>, dependencies |-> <<>>, dependents |-> <<>>, error |-> "",
     hops |-> <<>>, expanded |-> <<>>, parsed |-> {}, found |-> {}]

TracerInit ==
    /\ disk \in Projects
    /\ cache = {}
    /\ visited = {}
    /\ calls = [c \in CallIds |-> IdleCall]
    /\ DiffParked
    /\ FinderParked
    /\ HydratorParked

\* JavaScript runs a synchronous section to its end: nothing else is
\* scheduled while a traversal is on the stack
NoSyncSection == \A c \in CallIds : calls[c].pc # "traverse"

\* analyzeImpact, up to `await fse.pathExists(absolutePath)` (lines 531-534)
CallAnalyzeImpact(c) ==
    /\ NoSyncSection
    /\ calls[c].pc = "idle"
    \* calls are numbered in the order in which they are made
    /\ \A b \in CallIds : b < c => calls[b].pc # "idle"
    /\ \E t \in Targets(disk) :
         calls' = [calls EXCEPT ![c] =
                     [@ EXCEPT !.pc = "pathExists",
                               !.filePath = t,
                               !.absolutePath = IF isAbsolute(t) THEN t ELSE pathJoin(rootPath, t)]]
    /\ UNCHANGED <<disk, cache, visited>>
    /\ UNCHANGED exceptTracer

\* lines 534-547: the existence check, the parse of the target, the reset
\* of the visited set and the call of analyzeDependencies at depth 0
PathExistsReturns(c) ==
    /\ NoSyncSection
    /\ calls[c].pc = "pathExists"
    /\ \E abs \in {calls[c].absolutePath} :
           IF ~pathExists(disk, abs)
           THEN /\ calls' = [calls EXCEPT ![c] = [@ EXCEPT !.pc = "failed", !.error = "NotFound"]]
                /\ UNCHANGED <<cache, visited>>
           ELSE IF ~canRead(disk, abs)
           THEN /\ calls' = [calls EXCEPT ![c] = [@ EXCEPT !.pc = "failed", !.error = "ReadError"]]
                /\ UNCHANGED <<cache, visited>>
           ELSE /\ cache' = cache \cup {abs}
                /\ visited' = clearVisited(visited)
                /\ calls' = [calls EXCEPT ![c] =
                               [@ EXCEPT !.pc = "traverse",
                                         !.exports = extractExports(disk, abs),
                                         !.parsed = {abs},
                                         !.found = visited,
                                         !.stack = <<Frame(abs, 0)>>]]
    /\ UNCHANGED disk
    /\ UNCHANGED exceptTracer

Top(stack) == stack[Len(stack)]

Pop(stack) == SubSeq(stack, 1, Len(stack) - 1)

ReplaceTop(stack, fr) == [stack EXCEPT ![Len(stack)] = fr]

\* what follows the return of the outermost analyzeDependencies:
\* analyzeDependents starts and awaits the import of globby (line 701)
AfterReturn(stack) == IF Len(stack) = 1 THEN "importGlobby" ELSE "traverse"

DependencyEntry(d, resolvedPath, imp) ==
    [filePath |-> resolvedPath,
     relativePath |-> pathRelative(rootPath, resolvedPath),
     type |-> determineFileType(d, resolvedPath),
     imports |-> importedNames(imp)]

\* one step of analyzeDependencies (lines 640-691): the entry of a call
\* (depth and visited checks), one iteration of the forEach over the import
\* declarations, or the return of a call
TraverseStep(c) ==
    /\ calls[c].pc = "traverse"
    /\ \E st \in {calls[c].stack} : \E fr \in {Top(st)} :
         IF ~fr.entered
         THEN IF tooDeep(fr.depth) \/ alreadyVisited(visited, fr.file)
              THEN /\ calls' = [calls EXCEPT ![c] =
                                  [@ EXCEPT !.stack = Pop(st), !.pc = AfterReturn(st)]]
                   /\ UNCHANGED <<cache, visited>>
              ELSE /\ visited' = visited \cup {fr.file}
                   /\ calls' = [calls EXCEPT ![c] =
                                  [@ EXCEPT !.stack = ReplaceTop(st, [fr EXCEPT !.entered = TRUE]),
                                            !.expanded = Append(@, fr.file)]]
                   /\ UNCHANGED cache
         ELSE IF fr.idx > Len(FileAt(disk, fr.file).imports)
         THEN /\ calls' = [calls EXCEPT ![c] =
                             [@ EXCEPT !.stack = Pop(st), !.pc = AfterReturn(st)]]
              /\ UNCHANGED <<cache, visited>>
         ELSE \E imp \in {FileAt(disk, fr.file).imports[fr.idx]} :
              \E next \in {[fr EXCEPT !.idx = fr.idx + 1]} :
              \E resolvedPath \in {resolveImportPath(disk, dirname(fr.file), imp.spec)} :
                  IF ~isLocalSpecifier(imp.spec)
                     \/ resolvedPath = None
                     \/ ~includes(resolvedPath, rootPath)
                  THEN /\ calls' = [calls EXCEPT ![c] = [@ EXCEPT !.stack = ReplaceTop(st, next)]]
                       /\ UNCHANGED <<cache, visited>>
                  ELSE IF ~canRead(disk, resolvedPath)
                  \* fs.readFileSync of a directory or of an unreadable file
                  \* throws out of analyzeImpact
                  THEN /\ calls' = [calls EXCEPT ![c] =
                                      [@ EXCEPT !.pc = "failed", !.error = "ReadError",
                                                !.stack = <<>>]]
                       /\ UNCHANGED <<cache, visited>>
                  ELSE \E entry \in {DependencyEntry(disk, resolvedPath, imp)} :
                       IF mayRecurse(fr.depth)
                       THEN /\ cache' = cache \cup {resolvedPath}
                            /\ calls' = [calls EXCEPT ![c] =
                                 [@ EXCEPT !.dependencies = Append(@, entry),
                                           !.hops = Append(@, fr.depth + 1),
                                           !.parsed = @ \cup {resolvedPath},
                                           !.stack = Append(ReplaceTop(st, next),
                                                            Frame(resolvedPath, fr.depth + 1))]]
                            /\ UNCHANGED visited
                       ELSE /\ calls' = [calls EXCEPT ![c] =
                                 [@ EXCEPT !.dependencies = Append(@, entry),
                                           !.hops = Append(@, fr.depth + 1),
                                           !.stack = ReplaceTop(st, next)]]
                            /\ UNCHANGED <<cache, visited>>
    /\ UNCHANGED disk
    /\ UNCHANGED exceptTracer

SourceExtensions == {<<".", "t", "s">>, <<".", "t", "s", "x">>, <<".", "j", "s">>, <<".", "j", "s", "x">>}

\* the patterns and the ignore list of the globby call (lines 700-706)
matchesGlob(p) ==
    /\ startsWith(p, rootPath \o <<"/">> \o Src \o <<"/">>)
    /\ \E e \in SourceExtensions : endsWith(p, e)
    /\ ~endsWith(p, <<".", "d", ".", "t", "s">>)
    /\ ~includes(basename(p), <<".", "s", "p", "e", "c", ".">>)
    /\ ~includes(basename(p), <<".", "t", "e", "s", "t", ".">>)

globby(d) ==
    LET paths == [i \in 1..Len(d) |-> d[i].path]
    IN  SelectSeq(paths, matchesGlob)

RECURSIVE itemsFromTarget(_, _, _, _)
itemsFromTarget(d, file, imports, targetPath) ==
    Value(imports, LAMBDA imps :
        IF imps = <<>> THEN <<>>
        ELSE LET imp == Head(imps)
                 resolvedPath == resolveImportPath(d, dirname(file), imp.spec)
             IN  (IF resolvedPath = targetPath THEN importedNames(imp) ELSE <<>>)
                 \o itemsFromTarget(d, file, Tail(imps), targetPath))

\* the loop of analyzeDependents over the listing (lines 710-744)
RECURSIVE scanDependents(_, _, _)
scanDependents(d, listing, targetPath) ==
    Value(listing, LAMBDA files :
        IF files = <<>> THEN <<>>
        ELSE Value(Head(files), LAMBDA file :
               Value(itemsFromTarget(d, file, FileAt(d, file).imports, targetPath),
                     LAMBDA importedItems :
                 IF file = targetPath THEN scanDependents(d, Tail(files), targetPath)
                 ELSE IF Len(importedItems) > 0
                 THEN << [filePath |-> file,
                          relativePath |-> pathRelative(rootPath, file),
                          importedItems |-> importedItems,
                          usageCount |-> Len(importedItems)] >>
                      \o scanDependents(d, Tail(files), targetPath)
                 ELSE scanDependents(d, Tail(files), targetPath))))

\* `await import('globby')` returns (line 701)
ImportGlobbyReturns(c) ==
    /\ NoSyncSection
    /\ calls[c].pc = "importGlobby"
    /\ calls' = [calls EXCEPT ![c] = [@ EXCEPT !.pc = "globby"]]
    /\ UNCHANGED <<disk, cache, visited>>
    /\ UNCHANGED exceptTracer

\* the places of the listing at which project.addSourceFileAtPath(file)
\* (line 713) throws
unloadable(d, files, targetPath) ==
    {i \in 1..Len(files) : files[i] # targetPath /\ ~canRead(d, files[i])}

\* `await globby(...)` returns, the scan runs and analyzeImpact returns
\* its ImpactAnalysis (lines 702-747, 552-558), or the scan throws at the
\* first file that cannot be loaded and analyzeImpact rejects
GlobbyReturns(c) ==
    /\ NoSyncSection
    /\ calls[c].pc = "globby"
    /\ \E files \in {globby(disk)} :
       \E failures \in {unloadable(disk, files, calls[c].absolutePath)} :
           IF failures = {}
           THEN \E scanned \in {Range(files) \ {calls[c].absolutePath}} :
                \E dependents \in {scanDependents(disk, files, calls[c].absolutePath)} :
                    /\ cache' = cache \cup scanned
                    /\ calls' = [calls EXCEPT ![c] =
                         [@ EXCEPT !.pc = "done",
                                   !.parsed = @ \cup scanned,
                                   !.dependents = dependents]]
           ELSE \E scanned \in {{files[i] : i \in 1..(firstIndex(failures) - 1)}
                                    \ {calls[c].absolutePath}} :
                    /\ cache' = cache \cup scanned
                    /\ calls' = [calls EXCEPT ![c] =
                         [@ EXCEPT !.pc = "failed", !.error = "ReadError",
                                   !.parsed = @ \cup scanned]]
    /\ UNCHANGED <<disk, visited>>
    /\ UNCHANGED exceptTracer

TracerNext ==
    \E c \in CallIds :
        \/ CallAnalyzeImpact(c)
        \/ PathExistsReturns(c)
        \/ TraverseStep(c)
        \/ ImportGlobbyReturns(c)
        \/ GlobbyReturns(c)

TracerSpec == TracerInit /\ [][TracerNext]_vars

\* a synchronous section that has started runs on: the event loop does not
\* stop inside analyzeDependencies
FairTracerSpec == TracerSpec /\ \A c \in CallIds : WF_vars(TraverseStep(c))

----------------------------------------------------------------------------
(* GitDiffAnalyzer: the output of `git diff --cached -U0 -- <file>`        *)

MaxHunks == 2

MaxLines == 3

\* new-file start lines of the hunks
Starts == {1, 10}

\* line texts: `a`, and the statements `++i` (when added) and `--i` (when
\* deleted)
Contents == {<<"a">>, <<"+", "+", "i">>, <<"-", "-", "i">>}

Tags == {"+", "-", " "}

BodyLines == {l \in [tag : Tags, content : Contents] : l.content[1] \in {"a", l.tag}}

Bodies == UNION {[1..n -> BodyLines] : n \in 0..MaxLines}

Hunks == [newStart : Starts, body : Bodies]

RECURSIVE totalBody(_)
totalBody(hs) == IF hs = <<>> THEN 0 ELSE Len(Head(hs).body) + totalBody(Tail(hs))

Diffs == {hs \in UNION {[1..n -> Hunks] : n \in 1..MaxHunks} : totalBody(hs) <= MaxLines}

RECURSIVE toDigits(_)
toDigits(n) ==
    IF n < 10 THEN <<Digits[n + 1]>>
    ELSE toDigits(n \div 10) \o <<Digits[(n % 10) + 1]>>

countTag(body, tag) == Cardinality({j \in 1..Len(body) : body[j].tag = tag})

\* git prints "start" when the count is 1 and "start,count" otherwise
renderRange(start, count) ==
    IF count = 1 THEN toDigits(start) ELSE toDigits(start) \o <<",">> \o toDigits(count)

renderHeader(h) ==
    <<"@", "@", " ", "-">>
    \o renderRange(h.newStart, countTag(h.body, "-") + countTag(h.body, " "))
    \o <<" ", "+">>
    \o renderRange(h.newStart, countTag(h.body, "+") + countTag(h.body, " "))
    \o <<" ", "@", "@">>

renderHunk(h) ==
    <<renderHeader(h)>> \o [j \in 1..Len(h.body) |-> <<h.body[j].tag>> \o h.body[j].content]

RECURSIVE renderHunks(_)
renderHunks(hs) == IF hs = <<>> THEN <<>> ELSE renderHunk(Head(hs)) \o renderHunks(Tail(hs))

\* stdout.split('\n'): the file header, the hunks, and the empty string
\* after the last newline
renderDiff(hs) ==
    << <<"d", "i", "f", "f">>,
       <<"-", "-", "-", " ", "a", "/", "f">>,
       <<"+", "+", "+", " ", "b", "/", "f">> >>
    \o renderHunks(hs) \o << <<>> >>

\* the index after the longest run of digits of s that starts at i
RECURSIVE digitsEnd(_, _)
digitsEnd(s, i) == IF i <= Len(s) /\ isDigit(s[i]) THEN digitsEnd(s, i + 1) ELSE i

RECURSIVE parseInt(_)
parseInt(ds) ==
    IF ds = <<>> THEN 0 ELSE 10 * parseInt(SubSeq(ds, 1, Len(ds) - 1)) + digitValue(ds[Len(ds)])

hasAt(s, i, p) == i + Len(p) - 1 <= Len(s) /\ SubSeq(s, i, i + Len(p) - 1) = p

\* after (?:,\d+)? at i
optionalCount(s, i) ==
    IF hasAt(s, i, <<",">>) /\ digitsEnd(s, i + 1) > i + 1 THEN digitsEnd(s, i + 1) ELSE i

\* line.match(/^@@ -\d+(?:,\d+)? \+(\d+)(?:,(\d+))? @@/): the first group
\* as a number, or -1 when the line does not match
hunkMatch(line) ==
    LET a == 5
        b == digitsEnd(line, a)
        c == optionalCount(line, b)
        e == c + 2
        f == digitsEnd(line, e)
        g == optionalCount(line, f)
    IN  IF /\ hasAt(line, 1, <<"@", "@", " ", "-">>)
           /\ b > a
           /\ hasAt(line, c, <<" ", "+">>)
           /\ f > e
           /\ hasAt(line, g, <<" ", "@", "@">>)
        THEN parseInt(SubSeq(line, e, f - 1))
        ELSE -1

isAddedLine(line) == startsWith(line, <<"+">>) /\ ~startsWith(line, <<"+", "+", "+">>)

isDeletedLine(line) == startsWith(line, <<"-">>) /\ ~startsWith(line, <<"-", "-", "-">>)

isContextLine(line) == startsWith(line, <<" ">>)

ChangedLine(n, t, line) == [lineNumber |-> n, type |-> t, content |-> substring(line, 1)]

\* path.extname
extname(p) ==
    LET base == basename(p)
        dots == {i \in 2..Len(base) : base[i] = "."}
    IN  IF dots = {} THEN <<>>
        ELSE SubSeq(base, CHOOSE i \in dots : \A j \in dots : j <= i, Len(base))

isSourceFile(filePath) ==
    /\ extname(filePath) \in SourceExtensions
    /\ ~includes(filePath, <<".", "t", "e", "s", "t", ".">>)
    /\ ~includes(filePath, <<".", "s", "p", "e", "c", ".">>)

\* the staged file with the sample source text, and other staged paths
FTs == <<"s", "r", "c", "/", "f", ".", "t", "s">>

GTs == <<"s", "r", "c", "/", "g", ".", "t", "s">>

HTs == <<"s", "r", "c", "/", "h", ".", "t", "s">>

FTestTs == <<"s", "r", "c", "/", "f", ".", "t", "e", "s", "t", ".", "t", "s">>

ReadmeMd == <<"R", "E", "A", "D", "M", "E", ".", "m", "d">>

VTsx == <<"s", "r", "c", "/", "v", ".", "t", "s", "x">>

NameStatus(status, filePath) == [status |-> status, path |-> filePath]

\* outputs of `git diff --cached --name-status`, line by line
StagedLists ==
    { <<>>,
      <<NameStatus("M", FTs)>>,
      <<NameStatus("D", GTs), NameStatus("M", ReadmeMd), NameStatus("A", FTs)>>,
      <<NameStatus("R", HTs), NameStatus("D", FTs), NameStatus("D", ReadmeMd)>>,
      <<NameStatus("M", FTestTs), NameStatus("D", GTs)>>,
      <<NameStatus("M", GTs), NameStatus("A", VTsx)>> }

fileStatus(status) ==
    CASE status = "A" -> "added"
      [] status = "M" -> "modified"
      [] status = "D" -> "deleted"
      [] OTHER -> "skipped"

\* the loop of getStagedFiles (lines 140-155)
stagedFiles(lines) ==
    LET known == SelectSeq(lines, LAMBDA l : fileStatus(l.status) # "skipped")
    IN  [i \in 1..Len(known) |-> [path |-> known[i].path, status |-> fileStatus(known[i].status)]]

\* a staged file whose diff is requested: a source file that is not deleted
hasDiff(lines) ==
    \E i \in 1..Len(lines) : lines[i].status \in {"A", "M"} /\ isSourceFile(lines[i].path)

neverDeleted(status) == FALSE

\* status === 'deleted'
isDeleted(status) == status = "deleted"

FileChange(file, lines, affected) ==
    [filePath |-> pathJoin(rootPath, file.path), relativePath |-> file.path,
     status |-> file.status, changedLines |-> lines, affectedBlocks |-> affected]

\* fileChanges.push(fileChange); summary[file.status]++
pushFileChange(a, fileChange) ==
    [fileChanges |-> Append(a.fileChanges, fileChange),
     summary |-> [a.summary EXCEPT ![fileChange.status] = @ + 1]]

Request(kind, filePath, ok) == [kind |-> kind, path |-> filePath, ok |-> ok]

DiffInit ==
    /\ repo \in BOOLEAN
    /\ staged \in StagedLists
    /\ hunks \in IF hasDiff(staged) THEN Diffs ELSE {<<>>}
    /\ stdout = <<>>
    /\ gitPc = "list"
    /\ lineIdx = 0
    /\ currentLine = 0
    /\ changedLines = <<>>
    /\ relIdx = 0
    /\ blocks = <<>>
    /\ processedBlocks = {}
    /\ fileIdx = 0
    /\ analysis = [fileChanges |-> <<>>, summary |-> [added |-> 0, modified |-> 0, deleted |-> 0]]
    /\ gitError = ""
    /\ issued = <<>>
    /\ TracerParked
    /\ FinderParked
    /\ HydratorParked

\* the working directory stops being a repository while a git command is awaited
LoseRepository ==
    /\ gitPc \in {"list", "diff"}
    /\ repo
    /\ repo' = FALSE
    /\ UNCHANGED <<hunks, stdout, gitPc, lineIdx, currentLine, changedLines, relIdx, blocks,
                   processedBlocks>>
    /\ UNCHANGED <<staged, fileIdx, analysis, gitError, issued>>
    /\ UNCHANGED exceptDiff

\* `git diff --cached --name-status` returns or fails: getStagedFiles (lines
\* 126-164) and the early return of analyzeStagedChanges (lines 89-95)
GetStagedFilesReturns ==
    /\ gitPc = "list"
    /\ IF ~repo
       THEN /\ gitPc' = "failed"
            /\ gitError' = "NotGitRepository"
            /\ UNCHANGED fileIdx
       ELSE /\ gitPc' = IF Len(stagedFiles(staged)) = 0 THEN "returned" ELSE "files"
            /\ fileIdx' = 1
            /\ UNCHANGED gitError
    /\ issued' = Append(issued, Request("list", <<>>, repo))
    /\ UNCHANGED <<hunks, stdout, lineIdx, currentLine, changedLines, relIdx, blocks,
                   processedBlocks>>
    /\ UNCHANGED <<repo, staged, analysis>>
    /\ UNCHANGED exceptDiff

\* one iteration of the loop of analyzeStagedChanges up to its await (lines
\* 101-109) with the start of analyzeFileChange (lines 175-186), or the
\* return of the DiffAnalysis (lines 116-120)
NextFile ==
    /\ gitPc = "files"
    /\ IF fileIdx > Len(stagedFiles(staged))
       THEN /\ gitPc' = "returned"
            /\ UNCHANGED <<fileIdx, analysis, issued>>
       ELSE LET file == stagedFiles(staged)[fileIdx]
            IN  IF ~isSourceFile(file.path)
                THEN /\ fileIdx' = fileIdx + 1
                     /\ UNCHANGED <<gitPc, analysis, issued>>
                ELSE IF isDeleted(file.status)
                THEN /\ analysis' = pushFileChange(analysis, FileChange(file, <<>>, <<>>))
                     /\ fileIdx' = fileIdx + 1
                     /\ UNCHANGED <<gitPc, issued>>
                ELSE /\ gitPc' = "diff"
                     /\ UNCHANGED <<fileIdx, analysis, issued>>
    /\ UNCHANGED <<hunks, stdout, lineIdx, currentLine, changedLines, relIdx, blocks,
                   processedBlocks>>
    /\ UNCHANGED <<repo, staged, gitError>>
    /\ UNCHANGED exceptDiff

\* `git diff --cached -U0 -- <file>` returns or fails (lines 208-217): a
\* failure is caught and getChangedLines returns [] (lines 251-253), on
\* which analyzeFileChange returns null (lines 188-190)
GetChangedLinesRuns ==
    /\ gitPc = "diff"
    /\ issued' = Append(issued, Request("diff", stagedFiles(staged)[fileIdx].path, repo))
    /\ changedLines' = <<>>
    /\ currentLine' = 0
    /\ IF repo
       THEN /\ stdout' = renderDiff(hunks)
            /\ lineIdx' = 1
            /\ gitPc' = "parse"
       ELSE /\ gitPc' = "null"
            /\ UNCHANGED <<stdout, lineIdx>>
    /\ UNCHANGED <<hunks, relIdx, blocks, processedBlocks>>
    /\ UNCHANGED <<repo, staged, fileIdx, analysis, gitError>>
    /\ UNCHANGED exceptDiff

\* one iteration of the loop of getChangedLines (lines 218-248)
ParseLine ==
    /\ gitPc = "parse"
    /\ lineIdx <= Len(stdout)
    /\ LET line == stdout[lineIdx]
       IN  IF hunkMatch(line) >= 0
           THEN /\ currentLine' = hunkMatch(line)
                /\ UNCHANGED changedLines
           ELSE IF isAddedLine(line)
           THEN /\ changedLines' = Append(changedLines, ChangedLine(currentLine, "add", line))
                /\ currentLine' = currentLine + 1
           ELSE IF isDeletedLine(line)
           THEN /\ changedLines' = Append(changedLines, ChangedLine(currentLine, "delete", line))
                /\ UNCHANGED currentLine
           ELSE IF isContextLine(line)
           THEN /\ currentLine' = currentLine + 1
                /\ UNCHANGED changedLines
           ELSE UNCHANGED <<currentLine, changedLines>>
    /\ lineIdx' = lineIdx + 1
    /\ UNCHANGED <<hunks, stdout, gitPc, relIdx, blocks, processedBlocks>>
    /\ UNCHANGED stagingVars
    /\ UNCHANGED exceptDiff

----------------------------------------------------------------------------
(* The staged source file as ts-morph presents it: the lengths of its      *)
(* lines and its syntax nodes (pos is the start with the leading trivia,   *)
(* start the first token, end the end; parent 0 is the SourceFile):        *)
(*    1  import { x } from './x';                                          *)
(*    2  function f(a) {                                                   *)
(*    3    const g = () => {                                               *)
(*    4      return a;                                                     *)
(*    5    };                                                              *)
(*    6    return g;                                                       *)
(*    7  }                                                                 *)
(*    8                                                                    *)
(*    9  class K {                                                         *)
(*   10    m() {                                                           *)
(*   11      return 1;                                                     *)
(*   12    }                                                               *)
(*   13  }                                                                 *)
(*   14  const top = 1;                                                    *)

lineLengths == <<24, 15, 19, 13, 4, 11, 1, 0, 9, 7, 13, 3, 1, 14, 0>>

sourceNodes ==
    <<
       [kind |-> "ImportDeclaration", name |-> "", pos |-> 0, start |-> 0, end |-> 24, parent |-> 0,
         arrow |-> FALSE, has |-> {}],
       [kind |-> "FunctionDeclaration", name |-> "f", pos |-> 24, start |-> 25, end |-> 93, parent |-> 0,
         arrow |-> FALSE, has |-> {}],
       [kind |-> "Block", name |-> "", pos |-> 38, start |-> 39, end |-> 93, parent |-> 2,
         arrow |-> FALSE, has |-> {}],
       [kind |-> "VariableStatement", name |-> "", pos |-> 40, start |-> 43, end |-> 79, parent |-> 3,
         arrow |-> FALSE, has |-> {}],
       [kind |-> "VariableDeclarationList", name |-> "", pos |-> 40, start |-> 43, end |-> 78, parent |-> 4,
         arrow |-> FALSE, has |-> {}],
       [kind |-> "VariableDeclaration", name |-> "g", pos |-> 48, start |-> 49, end |-> 78, parent |-> 5,
         arrow |-> TRUE, has |-> {}],
       [kind |-> "ArrowFunction", name |-> "", pos |-> 52, start |-> 53, end |-> 78, parent |-> 6,
         arrow |-> FALSE, has |-> {}],
       [kind |-> "Block", name |-> "", pos |-> 58, start |-> 59, end |-> 78, parent |-> 7,
         arrow |-> FALSE, has |-> {}],
       [kind |-> "ReturnStatement", name |-> "", pos |-> 60, start |-> 65, end |-> 74, parent |-> 8,
         arrow |-> FALSE, has |-> {}],
       [kind |-> "ReturnStatement", name |-> "", pos |-> 79, start |-> 82, end |-> 91, parent |-> 3,
         arrow |-> FALSE, has |-> {}],
       [kind |-> "ClassDeclaration", name |-> "K", pos |-> 93, start |-> 95, end |-> 132, parent |-> 0,
         arrow |-> FALSE, has |-> {}],
       [kind |-> "MethodDeclaration", name |-> "m", pos |-> 104, start |-> 107, end |-> 130, parent |-> 11,
         arrow |-> FALSE, has |-> {}],
       [kind |-> "Block", name |-> "", pos |-> 110, start |-> 111, end |-> 130, parent |-> 12,
         arrow |-> FALSE, has |-> {}],
       [kind |-> "ReturnStatement", name |-> "", pos |-> 112, start |-> 117, end |-> 126, parent |-> 13,
         arrow |-> FALSE, has |-> {}],
       [kind |-> "VariableStatement", name |-> "", pos |-> 132, start |-> 133, end |-> 147, parent |-> 0,
         arrow |-> FALSE, has |-> {}],
       [kind |-> "VariableDeclarationList", name |-> "", pos |-> 132, start |-> 133, end |-> 146, parent |-> 15,
         arrow |-> FALSE, has |-> {}],
       [kind |-> "VariableDeclaration", name |-> "top", pos |-> 138, start |-> 139, end |-> 146, parent |-> 16,
         arrow |-> FALSE, has |-> {}]
    >>

NodeIds == 1..Len(sourceNodes)

\* the loop of lines 302-305
RECURSIVE posOfLine(_, _)
posOfLine(lineNumber, i) ==
    IF i < lineNumber - 1 /\ i < Len(lineLengths)
    THEN lineLengths[i + 1] + 1 + posOfLine(lineNumber, i + 1)
    ELSE 0

RECURSIVE lineOfPos(_, _)
lineOfPos(pos, i) ==
    IF i < Len(lineLengths) /\ pos > lineLengths[i]
    THEN lineOfPos(pos - lineLengths[i] - 1, i + 1)
    ELSE i

getLine(pos) == lineOfPos(pos, 1)

containsPos(n, pos) == sourceNodes[n].pos <= pos /\ pos < sourceNodes[n].end

\* the deepest node that contains pos, 0 for undefined
getDescendantAtPos(pos) ==
    LET inside == {n \in NodeIds : containsPos(n, pos)}
        deepest == {n \in inside : \A k \in inside : sourceNodes[k].parent # n}
    IN  IF inside = {} THEN 0 ELSE CHOOSE n \in deepest : TRUE

\* text.includes('return (') && (text.includes('<') || text.includes('jsx'))
isReactComponent(has) == "return (" \in has /\ ("<" \in has \/ "jsx" \in has)

\* The staged files share the layout above and differ in two lines:
\*    src/f.ts    as above
\*    src/g.ts    line 4 `  return (a);`   line 6 ` return a<g`
\*    src/v.tsx   line 4 `return (<a/>)`   line 6 `return <a/>`
\* codeText is what includes() finds in the text handed to isReactComponent:
\* func.getText() of f (node 2), and the text of the whole const statement
\* of g (node 6)
codeText(filePath, n) ==
    IF filePath = GTs
    THEN (IF n = 2 THEN {"return (", "<"} ELSE IF n = 6 THEN {"return ("} ELSE {})
    ELSE IF filePath = VTsx
    THEN (IF n \in {2, 6} THEN {"return (", "<"} ELSE {})
    ELSE sourceNodes[n].has

\* a name is the sequence of its parts: <<"f">>, or <<"K", ".", "m">> for
\* `${className}.${name}`
NoBlock == [type |-> "none"]

CodeBlock(type, name, n, lineNumber) ==
    [type |-> type, name |-> name,
     startLine |-> getLine(sourceNodes[n].start),
     endLine |-> getLine(sourceNodes[n].end),
     node |-> n,
     changedLineNumbers |-> <<lineNumber>>]

classNameOf(n) ==
    LET p == sourceNodes[n].parent
    IN  IF p # 0 /\ sourceNodes[p].kind = "ClassDeclaration" THEN sourceNodes[p].name
        ELSE "Unknown"

\* the walk up the ancestors of lines 312-412
RECURSIVE enclosingBlock(_, _, _)
enclosingBlock(filePath, current, lineNumber) ==
    IF current = 0 THEN NoBlock
    ELSE LET nd == sourceNodes[current]
         IN  IF nd.kind = "FunctionDeclaration"
             THEN CodeBlock(IF isReactComponent(codeText(filePath, current))
                            THEN "component" ELSE "function",
                            <<nd.name>>, current, lineNumber)
             ELSE IF nd.kind = "VariableDeclaration" /\ nd.arrow
             THEN CodeBlock(IF isReactComponent(codeText(filePath, current))
                            THEN "component" ELSE "function",
                            <<nd.name>>, current, lineNumber)
             ELSE IF nd.kind = "MethodDeclaration"
             THEN CodeBlock("method", <<classNameOf(current), ".", nd.name>>, current, lineNumber)
             ELSE IF nd.kind = "ClassDeclaration"
             THEN CodeBlock("class", <<nd.name>>, current, lineNumber)
             ELSE IF nd.kind = "InterfaceDeclaration"
             THEN CodeBlock("interface", <<nd.name>>, current, lineNumber)
             ELSE enclosingBlock(filePath, nd.parent, lineNumber)

findCodeBlockAtLine(filePath, lineNumber) ==
    enclosingBlock(filePath, getDescendantAtPos(posOfLine(lineNumber, 0)), lineNumber)

\* `${block.type}-${block.name}-${block.startLine}`
blockKey(block) == <<block.type, block.name, block.startLine>>

onlyModified(l) == l.type = "modify"

\* l.type === 'add' || l.type === 'modify'
isRelevant(l) == l.type = "add" \/ l.type = "modify"

relevantLines(ls) == SelectSeq(ls, isRelevant)

isProcessed(keys, block) == blockKey(block) \in keys

neverIncludes(numbers, lineNumber) == FALSE

alreadyIncludes(numbers, lineNumber) == lineNumber \in Range(numbers)

sameBlock(b, block) ==
    b.type = block.type /\ b.name = block.name /\ b.startLine = block.startLine

\* blocks.find(...): the index of the first block equal in type, name and
\* start line, 0 when there is none
findExisting(bs, block) ==
    LET hits == {i \in 1..Len(bs) : sameBlock(bs[i], block)}
    IN  IF hits = {} THEN 0 ELSE CHOOSE i \in hits : \A j \in hits : i <= j

\* getChangedLines returns (line 250); analyzeFileChange returns null for
\* an empty list (lines 188-190) and otherwise calls locateAffectedBlocks
ReturnChangedLines ==
    /\ gitPc = "parse"
    /\ lineIdx > Len(stdout)
    /\ IF Len(changedLines) = 0
       THEN gitPc' = "null"
       ELSE gitPc' = "exists"
    /\ UNCHANGED <<hunks, stdout, lineIdx, currentLine, changedLines, relIdx, blocks,
                   processedBlocks>>
    /\ UNCHANGED stagingVars
    /\ UNCHANGED exceptDiff

\* `await fse.pathExists(filePath)` returns: a file missing from the working
\* tree has no blocks, another is parsed (lines 260-269)
PathExistsForBlocks ==
    /\ gitPc = "exists"
    /\ blocks' = <<>>
    /\ processedBlocks' = {}
    /\ \E exists \in BOOLEAN :
           IF exists
           THEN /\ issued' = Append(issued, Request("parse", stagedFiles(staged)[fileIdx].path,
                                                    TRUE))
                /\ relIdx' = 1
                /\ gitPc' = "locate"
           ELSE /\ gitPc' = "done"
                /\ UNCHANGED <<relIdx, issued>>
    /\ UNCHANGED <<hunks, stdout, lineIdx, currentLine, changedLines>>
    /\ UNCHANGED <<repo, staged, fileIdx, analysis, gitError>>
    /\ UNCHANGED exceptDiff

\* one iteration of the loop of locateAffectedBlocks (lines 271-290)
LocateStep ==
    /\ gitPc = "locate"
    /\ relIdx <= Len(relevantLines(changedLines))
    /\ LET changedLine == relevantLines(changedLines)[relIdx]
           block == findCodeBlockAtLine(stagedFiles(staged)[fileIdx].path,
                                        changedLine.lineNumber)
           at == findExisting(blocks, block)
       IN  IF block = NoBlock
           THEN UNCHANGED <<blocks, processedBlocks>>
           ELSE IF ~isProcessed(processedBlocks, block)
           THEN /\ processedBlocks' = processedBlocks \cup {blockKey(block)}
                /\ blocks' = Append(blocks, block)
           ELSE /\ blocks' =
                     IF at # 0 /\ ~alreadyIncludes(blocks[at].changedLineNumbers,
                                                   changedLine.lineNumber)
                     THEN [blocks EXCEPT ![at].changedLineNumbers =
                                            Append(@, changedLine.lineNumber)]
                     ELSE blocks
                /\ UNCHANGED processedBlocks
    /\ relIdx' = relIdx + 1
    /\ UNCHANGED <<hunks, stdout, gitPc, lineIdx, currentLine, changedLines>>
    /\ UNCHANGED stagingVars
    /\ UNCHANGED exceptDiff

\* locateAffectedBlocks returns (line 292) and analyzeFileChange returns
\* the FileChange (lines 195-201)
ReturnBlocks ==
    /\ gitPc = "locate"
    /\ relIdx > Len(relevantLines(changedLines))
    /\ gitPc' = "done"
    /\ UNCHANGED <<hunks, stdout, lineIdx, currentLine, changedLines, relIdx, blocks,
                   processedBlocks>>
    /\ UNCHANGED stagingVars
    /\ UNCHANGED exceptDiff

\* analyzeFileChange has returned null or a FileChange: the loop of
\* analyzeStagedChanges records it and goes on (lines 109-113)
FileChangeReturns ==
    /\ gitPc \in {"null", "done"}
    /\ analysis' = IF gitPc = "null" THEN analysis
                   ELSE pushFileChange(analysis,
                                       FileChange(stagedFiles(staged)[fileIdx], changedLines,
                                                  blocks))
    /\ fileIdx' = fileIdx + 1
    /\ gitPc' = "files"
    /\ UNCHANGED <<hunks, stdout, lineIdx, currentLine, changedLines, relIdx, blocks,
                   processedBlocks>>
    /\ UNCHANGED <<repo, staged, gitError, issued>>
    /\ UNCHANGED exceptDiff

DiffNext ==
    \/ LoseRepository
    \/ GetStagedFilesReturns
    \/ NextFile
    \/ GetChangedLinesRuns
    \/ ParseLine
    \/ ReturnChangedLines
    \/ PathExistsForBlocks
    \/ LocateStep
    \/ ReturnBlocks
    \/ FileChangeReturns

DiffSpec == DiffInit /\ [][DiffNext]_vars

----------------------------------------------------------------------------
(* ContextFinder, src/src/core/context-finder.ts: keyword extraction and    *)
(* relevance scoring of the files of a project map.  A character outside    *)
(* ASCII is written by its code point, "U8FDB".                             *)

MaxInput == 3

MaxFiles == 3

Letters == Range(UpperCase) \cup Range(LowerCase)

Alphanumerics == Letters \cup Range(Digits)

\* [\w-]
WordOrHyphen == Alphanumerics \cup {"_", "-"}

\* the characters of [一-龥] that occur in the model
Logographs ==
    {"U4E0E", "U4E3A", "U4E86", "U4F18", "U4FEE", "U5220", "U5230", "U52A0", "U5316",
     "U548C", "U5728", "U5B9E", "U5BF9", "U5E2E", "U6211", "U6216", "U6237", "U628A",
     "U6539", "U65B0", "U662F", "U66F4", "U6DFB", "U73B0", "U7528", "U7684", "U7ED9",
     "U884C", "U8981", "U8BF7", "U8FDB", "U9664"}

stopWords ==
    {<<"U7684">>, <<"U662F">>, <<"U5728">>, <<"U6211">>, <<"U8981">>, <<"U8BF7">>,
     <<"U5E2E">>, <<"U548C">>, <<"U6216">>, <<"U4E0E">>, <<"U4E3A">>, <<"U4E86">>,
     <<"U5230">>, <<"U5BF9">>, <<"U8FDB", "U884C">>, <<"U5B9E", "U73B0">>,
     <<"U6DFB", "U52A0">>, <<"U4FEE", "U6539">>, <<"U5220", "U9664">>,
     <<"U66F4", "U65B0">>, <<"U7ED9">>, <<"U628A">>}

isWhitespace(ch) == ch = " "

\* userInput.trim()
trim(s) ==
    LET inked == {i \in 1..Len(s) : ~isWhitespace(s[i])}
    IN  IF inked = {} THEN <<>>
        ELSE SubSeq(s, firstIndex(inked), CHOOSE i \in inked : \A j \in inked : j <= i)

\* s.split(/\s+/)
RECURSIVE splitWhitespace(_)
splitWhitespace(s) ==
    LET blanks == {i \in 1..Len(s) : isWhitespace(s[i])}
    IN  IF blanks = {} THEN <<s>>
        ELSE LET k == firstIndex(blanks)
                 rest == {i \in k..Len(s) : ~isWhitespace(s[i])}
             IN  <<SubSeq(s, 1, k - 1)>> \o
                 (IF rest = {} THEN <<<<>>>>
                  ELSE splitWhitespace(SubSeq(s, firstIndex(rest), Len(s))))

\* the last index of the run of characters of More that starts at i
runEnd(s, i, More) ==
    CHOOSE j \in i..Len(s) :
        /\ \A k \in (i + 1)..j : s[k] \in More
        /\ j = Len(s) \/ s[j + 1] \notin More

\* token.match(/[First][More]*/g) with at least least characters, scanning
\* from index i: the matches in order, each as long as it can be
RECURSIVE matchRuns(_, _, _, _, _)
matchRuns(s, i, First, More, least) ==
    IF i > Len(s) THEN <<>>
    ELSE IF s[i] \notin First THEN matchRuns(s, i + 1, First, More, least)
    ELSE LET j == runEnd(s, i, More)
         IN  IF j - i + 1 >= least
             THEN <<SubSeq(s, i, j)>> \o matchRuns(s, j + 1, First, More, least)
             ELSE matchRuns(s, i + 1, First, More, least)

\* token.match(/[一-龥]{2,}/g) || []
chineseWords(token) == matchRuns(token, 1, Logographs, Logographs, 2)

\* token.match(/[a-zA-Z][a-zA-Z0-9]*/g) || []
englishWords(token) == matchRuns(token, 1, Letters, Alphanumerics, 1)

\* word.split(/(?=[A-Z])/)
RECURSIVE splitCamel(_)
splitCamel(word) ==
    LET humps == {i \in 2..Len(word) : isUpper(word[i])}
    IN  IF humps = {} THEN <<word>>
        ELSE LET k == firstIndex(humps)
             IN  <<SubSeq(word, 1, k - 1)>> \o splitCamel(SubSeq(word, k, Len(word)))

noCamelParts(word) == <<>>

\* word.split(/(?=[A-Z])/).filter(p => p.length > 1)
camelParts(word) == SelectSeq(splitCamel(word), LAMBDA p : Len(p) > 1)

\* token.match(/[\w-]+\.(ts|tsx|js|jsx)/)
namesFile(token) ==
    \E i \in 1..(Len(token) - 3) :
        /\ token[i] \in WordOrHyphen
        /\ token[i + 1] = "."
        /\ SubSeq(token, i + 2, i + 3) \in {<<"t", "s">>, <<"j", "s">>}

\* keywords.add(k), the Set kept in insertion order
addKeyword(ks, k) == IF k \in Range(ks) THEN ks ELSE Append(ks, k)

RECURSIVE addKeywords(_, _)
addKeywords(ks, words) ==
    IF words = <<>> THEN ks
    ELSE addKeywords(addKeyword(ks, Head(words)), Tail(words))

\* what one English word adds: itself and its camel-case parts, lower-cased
RECURSIVE englishKeywords(_)
englishKeywords(words) ==
    IF words = <<>> THEN <<>>
    ELSE LET word == Head(words)
             parts == camelParts(word)
         IN  (IF Len(word) >= 2
              THEN <<toLowerCase(word)>> \o [i \in 1..Len(parts) |-> toLowerCase(parts[i])]
              ELSE <<>>) \o englishKeywords(Tail(words))

\* the body of tokens.forEach
tokenKeywords(ks, token) ==
    IF Len(token) = 0 THEN ks
    ELSE LET chinese == SelectSeq(chineseWords(token), LAMBDA w : w \notin stopWords)
             afterChinese ==
                 addKeywords(ks, [i \in 1..Len(chinese) |-> toLowerCase(chinese[i])])
             afterEnglish == addKeywords(afterChinese, englishKeywords(englishWords(token)))
         IN  IF namesFile(token) THEN addKeyword(afterEnglish, token) ELSE afterEnglish

RECURSIVE forEachToken(_, _)
forEachToken(ks, tokens) ==
    IF tokens = <<>> THEN ks
    ELSE forEachToken(tokenKeywords(ks, Head(tokens)), Tail(tokens))

extractKeywords(input) == forEachToken(<<>>, splitWhitespace(trim(input)))

\* a FileAnalysis of the project map, as the scanner writes it
FileAnalysis(filePath, exports, functions, interfaces, imports, typeRefs) ==
    [filePath |-> filePath, relativePath |-> pathRelative(rootPath, filePath),
     exports |-> exports, functions |-> functions, interfaces |-> interfaces,
     imports |-> imports, typeRefs |-> typeRefs]

LocalImport(resolvedPath) == [isLocal |-> TRUE, resolvedPath |-> resolvedPath]

PackageImport == [isLocal |-> FALSE, resolvedPath |-> None]

UserProfileTs == <<"/", "p", "/", "s", "r", "c", "/", "u", "s", "e", "r", "P", "r", "o", "f", "i", "l", "e", ".", "t", "s">>

B1Ts == <<"/", "p", "/", "s", "r", "c", "/", "a", "b", "/", "b", "1", ".", "t", "s">>

A1Ts == <<"/", "p", "/", "s", "r", "c", "/", "a", "1", ".", "t", "s">>

BbTs == <<"/", "p", "/", "s", "r", "c", "/", "b", "b", ".", "t", "s">>

FilePool ==
    << FileAnalysis(UserProfileTs, <<>>, <<>>, <<>>, <<LocalImport(B1Ts)>>, <<>>),
       FileAnalysis(B1Ts, <<<<"a", "B">>, <<"g", "e", "t", "U", "s", "e", "r">>>>,
                    <<<<"a", "B">>, None>>, <<<<"A", "b", "1">>>>, <<>>,
                    <<UserProfileTs>>),
       FileAnalysis(A1Ts, <<<<"b", "a">>>>, <<<<"b", "a">>, <<"a", "1", "B">>>>, <<>>,
                    <<PackageImport, LocalImport(B1Ts), LocalImport(None), LocalImport(B1Ts)>>,
                    <<B1Ts, UserProfileTs>>),
       FileAnalysis(BbTs, <<<<"U", "s", "e", "r">>>>, <<>>,
                    <<<<"U", "s", "e", "r", "P", "r", "o", "f", "i", "l", "e">>, <<"B", "1">>>>, <<>>, <<>>) >>

\* the project maps: files of the pool, each at most once, in any order
Inventories ==
    {inv \in UNION {[1..n -> 1..Len(FilePool)] : n \in 0..MaxFiles} :
        \A i, j \in 1..Len(inv) : inv[i] = inv[j] => i = j}

InputChars == {"a", "B", "1", " "}

SampleInputs ==
    {<<"o", "p", "t", "i", "m", "i", "z", "e", " ", "g", "e", "t", "U", "s", "e", "r", "P", "r", "o", "f", "i", "l", "e", " ", "p", "e", "r", "f", "o", "r", "m", "a", "n", "c", "e">>,
     <<"u", "s", "e", "r">>,
     <<"f", "i", "x", " ", "b", "1", ".", "t", "s", " ", "a", "-", "B">>,
     <<"U8BF7", "U4F18", "U5316", "U7528", "U6237", " ", "U8FDB", "U884C", " ", "a", "1">>}

Inputs == UNION {[1..n -> InputChars] : n \in 0..MaxInput} \cup SampleInputs

bothTiers(fileNameLower, filePathLower, keyword) ==
    (IF includes(fileNameLower, keyword) THEN 10 ELSE 0)
    + (IF includes(filePathLower, keyword) THEN 5 ELSE 0)

\* the file-name and path tiers of one keyword
tierScore(fileNameLower, filePathLower, keyword) ==
    IF includes(fileNameLower, keyword) THEN 10
    ELSE IF includes(filePathLower, keyword) THEN 5
    ELSE 0

\* for (const x of names) if (x?.toLowerCase().includes(keyword)) score += points
RECURSIVE nameScore(_, _, _)
nameScore(names, keyword, points) ==
    IF names = <<>> THEN 0
    ELSE (IF Head(names) # None /\ includes(toLowerCase(Head(names)), keyword)
          THEN points ELSE 0) + nameScore(Tail(names), keyword, points)

keywordScore(file, keyword) ==
    tierScore(toLowerCase(basename(file.filePath)), toLowerCase(file.relativePath), keyword)
    + nameScore(file.exports, keyword, 8)
    + nameScore(file.functions, keyword, 6)
    + nameScore(file.interfaces, keyword, 6)

RECURSIVE scoreFrom(_, _, _)
scoreFrom(file, kws, acc) ==
    IF kws = <<>> THEN acc
    ELSE LET s == keywordScore(file, Head(kws))
         IN  scoreFrom(file, Tail(kws),
                       [score |-> acc.score + s,
                        matchedKeywords |-> IF s > 0
                                            THEN addKeyword(acc.matchedKeywords, Head(kws))
                                            ELSE acc.matchedKeywords])

calculateMatchScore(file, kws) == scoreFrom(file, kws, [score |-> 0, matchedKeywords |-> <<>>])

\* extractCodeSummary: the summary carries the source text when asked to
extractCodeSummary(filePath, includeSource) ==
    [filePath |-> filePath, sourceCode |-> includeSource]

RECURSIVE relate(_, _, _, _)
relate(paths, relationType, seen, acc) ==
    IF paths = <<>> THEN acc
    ELSE IF Head(paths) = None \/ Head(paths) \in seen
         THEN relate(Tail(paths), relationType, seen, acc)
         ELSE relate(Tail(paths), relationType, seen \cup {Head(paths)},
                     Append(acc, [filePath |-> Head(paths), relationType |-> relationType,
                                  codeSummary |-> extractCodeSummary(Head(paths), FALSE)]))

traceRelatedFiles(file) ==
    LET locals == SelectSeq(file.imports, LAMBDA imp : imp.isLocal)
        imported == relate([i \in 1..Len(locals) |-> locals[i].resolvedPath], "import",
                           {file.filePath}, <<>>)
    IN  relate(file.typeRefs, "type",
               {file.filePath} \cup {imported[i].filePath : i \in 1..Len(imported)}, imported)

ContextMatch(file, matchResult) ==
    [file |-> file, matchScore |-> matchResult.score,
     matchedKeywords |-> matchResult.matchedKeywords,
     codeSummary |-> extractCodeSummary(file.filePath, matchResult.score >= 10),
     relatedFiles |-> traceRelatedFiles(file)]

\* if (matchResult.score > 0)
isMatch(score) == score > 0

RECURSIVE collectMatches(_, _)
collectMatches(files, kws) ==
    IF files = <<>> THEN <<>>
    ELSE LET matchResult == calculateMatchScore(Head(files), kws)
         IN  (IF isMatch(matchResult.score)
              THEN <<ContextMatch(Head(files), matchResult)>> ELSE <<>>)
             \o collectMatches(Tail(files), kws)

insertBeforeTies(sorted, m) ==
    LET before == SelectSeq(sorted, LAMBDA x : x.matchScore > m.matchScore)
    IN  before \o <<m>> \o SubSeq(sorted, Len(before) + 1, Len(sorted))

\* one element placed by (a, b) => b.matchScore - a.matchScore, behind its equals
insertSorted(sorted, m) ==
    LET before == SelectSeq(sorted, LAMBDA x : x.matchScore >= m.matchScore)
    IN  before \o <<m>> \o SubSeq(sorted, Len(before) + 1, Len(sorted))

\* matches.sort((a, b) => b.matchScore - a.matchScore), a stable sort
RECURSIVE sortMatches(_, _)
sortMatches(ms, sorted) ==
    IF ms = <<>> THEN sorted
    ELSE sortMatches(Tail(ms), insertSorted(sorted, Head(ms)))

findMatchingFiles(files, kws) == sortMatches(collectMatches(files, kws), <<>>)

FinderInit ==
    /\ userInput \in Inputs
    /\ \E inv \in Inventories : projectMap = [files |-> [i \in 1..Len(inv) |-> FilePool[inv[i]]],
                                             set |-> FALSE]
    /\ keywords = <<>>
    /\ matches = <<>>
    /\ finderPc = "new"
    /\ TracerParked
    /\ DiffParked
    /\ HydratorParked

\* contextFinder.setProjectMap(projectMap)
SetProjectMap ==
    /\ finderPc \in {"new", "keywords"}
    /\ ~projectMap.set
    /\ projectMap' = [projectMap EXCEPT !.set = TRUE]
    /\ UNCHANGED <<userInput, keywords, matches, finderPc>>
    /\ UNCHANGED exceptFinder

\* const keywords = contextFinder.extractKeywords(requirement)
ExtractKeywords ==
    /\ finderPc = "new"
    /\ keywords' = extractKeywords(userInput)
    /\ finderPc' = "keywords"
    /\ UNCHANGED <<userInput, projectMap, matches>>
    /\ UNCHANGED exceptFinder

\* const matches = contextFinder.findMatchingFiles(keywords)
FindMatchingFiles ==
    /\ finderPc = "keywords"
    /\ IF ~projectMap.set
       THEN /\ finderPc' = "failed"
            /\ UNCHANGED matches
       ELSE /\ matches' = findMatchingFiles(projectMap.files, keywords)
            /\ finderPc' = "done"
    /\ UNCHANGED <<userInput, projectMap, keywords>>
    /\ UNCHANGED exceptFinder

FinderNext ==
    \/ SetProjectMap
    \/ ExtractKeywords
    \/ FindMatchingFiles

FinderSpec == FinderInit /\ [][FinderNext]_vars

----------------------------------------------------------------------------
(* TaskHydrator, src/src/core/hydrator.ts: the @AI-TODO markers of a file  *)
(* and the declaration each is attributed to.                              *)

MaxSourceLines == 3

\* a line of the file with the declarations ts-morph finds starting on it, in
\* the order forEachDescendant visits them
SourceLine(text, nodes) == [text |-> text, nodes |-> nodes]

LineKinds ==
    { SourceLine(<<"/", "/", " ", "@", "A", "I", "-", "T", "O", "D", "O", " ", "f", "i", "x">>,
                 <<>>),
      SourceLine(<<"/", "/", " ", "@", "A", "I", "-", "T", "O", "D", "O">>,
                 <<>>),
      SourceLine(<<"c", "o", "n", "s", "t", " ", "s", " ", "=", " ", "'", "/", "/", " ", "@", "A", "I", "-", "T", "O", "D", "O", " ", "n", "o", "'", ";">>,
                 <<>>),
      SourceLine(<<"f", "u", "n", "c", "t", "i", "o", "n", " ", "f", "(", ")", " ", "{", "}", " ", "/", "/", " ", "@", "A", "I", "-", "T", "O", "D", "O", " ", "x">>,
                 <<[kind |-> "function", name |-> <<"f">>]>>),
      SourceLine(<<"i", "n", "t", "e", "r", "f", "a", "c", "e", " ", "P", " ", "{", " ", "a", ":", " ", "T", " ", "}">>,
                 <<[kind |-> "interface", name |-> <<"P">>]>>),
      SourceLine(<<"c", "l", "a", "s", "s", " ", "K", " ", "{", " ", "m", "(", ")", " ", "{", "}", " ", "}">>,
                 <<[kind |-> "class", name |-> <<"K">>], [kind |-> "method", name |-> <<"m">>]>>),
      SourceLine(<<"c", "o", "n", "s", "t", " ", "g", " ", "=", " ", "(", ")", " ", "=", ">", " ", "1", ";">>,
                 <<[kind |-> "arrow", name |-> <<"g">>]>>),
      SourceLine(<<"x", " ", "=", " ", "1", ";", " ", "/", "/", " ", "n", "o", "t", "e">>,
                 <<>>) }

SourceFiles == UNION {[1..n -> LineKinds] : n \in 0..MaxSourceLines}

\* line.indexOf(pattern), -1 when absent
indexOf(line, pattern) ==
    LET at == {i \in 0..(Len(line) - Len(pattern)) :
                  SubSeq(line, i + 1, i + Len(pattern)) = pattern}
    IN  IF at = {} THEN -1 ELSE CHOOSE i \in at : \A j \in at : i <= j

\* (s.match(/c/g) || []).length
countOf(s, ch) == Cardinality({i \in 1..Len(s) : s[i] = ch})

Slashes == <<"/", "/">>

\* the double quote and the backtick, written by their code points
DoubleQuote == "U0022"

Backtick == "U0060"

insideString(line) ==
    LET beforeComment == SubSeq(line, 1, indexOf(line, Slashes))
    IN  \/ countOf(beforeComment, "'") % 2 # 0
        \/ countOf(beforeComment, DoubleQuote) % 2 # 0
        \/ countOf(beforeComment, Backtick) % 2 # 0

\* line.match(/\/\/\s*(.+)/): the text behind the first `//`, when there is some
hasComment(line) == indexOf(line, Slashes) >= 0 /\ indexOf(line, Slashes) + 2 < Len(line)

commentText(line) == trim(SubSeq(line, indexOf(line, Slashes) + 3, Len(line)))

\* the forEach of findAllComments over the lines
findAllComments(lines) ==
    LET commented == SelectSeq([i \in 1..Len(lines) |-> [text |-> lines[i].text, line |-> i]],
                               LAMBDA l : ~insideString(l.text) /\ hasComment(l.text))
    IN  [i \in 1..Len(commented) |->
            [text |-> commentText(commented[i].text), line |-> commented[i].line]]

Marker == <<"@", "A", "I", "-", "T", "O", "D", "O">>

\* comment.text.match(/@AI-TODO\s+(.+)/): the places where the marker is
\* followed by white space and then by something
markerMatches(text) ==
    {i \in 0..(Len(text) - Len(Marker)) :
        /\ SubSeq(text, i + 1, i + Len(Marker)) = Marker
        /\ i + Len(Marker) + 1 < Len(text)
        /\ isWhitespace(text[i + Len(Marker) + 1])}

\* match[1].trim()
taskDescription(text) ==
    trim(SubSeq(text, firstIndex(markerMatches(text)) + Len(Marker) + 1, Len(text)))

\* the descendants of the SourceFile that are declarations, in visiting order
RECURSIVE descendants(_, _)
descendants(lines, n) ==
    IF n > Len(lines) THEN <<>>
    ELSE [i \in 1..Len(lines[n].nodes) |->
             [kind |-> lines[n].nodes[i].kind, name |-> lines[n].nodes[i].name,
              startLine |-> n, endLine |-> n]]
         \o descendants(lines, n + 1)

\* the chain of Node.is... tests (lines 212-227)
blockType(kind) ==
    CASE kind = "function" -> "function"
      [] kind = "method" -> "method"
      [] kind = "arrow" -> "arrow"
      [] kind = "class" -> "class"
      [] OTHER -> "none"

Infinity == 1000000

firstSeen(startLine, commentLine, minDistance) == startLine > commentLine

\* startLine > commentLine && startLine - commentLine < minDistance
nearer(startLine, commentLine, minDistance) ==
    startLine > commentLine /\ startLine - commentLine < minDistance

\* the callback of forEachDescendant, folded over the nodes
RECURSIVE followingFrom(_, _, _, _)
followingFrom(nodes, commentLine, result, minDistance) ==
    IF nodes = <<>> THEN result
    ELSE LET node == Head(nodes)
         IN  IF nearer(node.startLine, commentLine, minDistance) /\ blockType(node.kind) # "none"
             THEN followingFrom(Tail(nodes), commentLine,
                                [type |-> blockType(node.kind), name |-> node.name,
                                 startLine |-> node.startLine, endLine |-> node.endLine],
                                node.startLine - commentLine)
             ELSE followingFrom(Tail(nodes), commentLine, result, minDistance)

findFollowingCodeBlock(lines, commentLine) ==
    followingFrom(descendants(lines, 1), commentLine, NoBlock, Infinity)

TaskContext(n, comment, codeBlock) ==
    [taskId |-> n, line |-> comment.line, taskDescription |-> taskDescription(comment.text),
     codeBlock |-> codeBlock]

HydratorInit ==
    /\ sourceLines \in SourceFiles
    /\ comments = <<>>
    /\ commentIdx = 0
    /\ aiTasks = <<>>
    /\ hydratorPc = "start"
    /\ TracerParked
    /\ DiffParked
    /\ FinderParked

\* const allComments = this.findAllComments(sourceFile)
FindAllComments ==
    /\ hydratorPc = "start"
    /\ comments' = findAllComments(sourceLines)
    /\ commentIdx' = 1
    /\ hydratorPc' = "tasks"
    /\ UNCHANGED <<sourceLines, aiTasks>>
    /\ UNCHANGED exceptHydrator

\* one call of the callback of allComments.forEach (lines 105-147)
ExtractTask ==
    /\ hydratorPc = "tasks"
    /\ commentIdx <= Len(comments)
    /\ LET comment == comments[commentIdx]
           codeBlock == findFollowingCodeBlock(sourceLines, comment.line)
       IN  aiTasks' = IF markerMatches(comment.text) # {} /\ codeBlock # NoBlock
                      THEN Append(aiTasks, TaskContext(Len(aiTasks) + 1, comment, codeBlock))
                      ELSE aiTasks
    /\ commentIdx' = commentIdx + 1
    /\ UNCHANGED <<sourceLines, comments, hydratorPc>>
    /\ UNCHANGED exceptHydrator

\* return aiTasks
ReturnTasks ==
    /\ hydratorPc = "tasks"
    /\ commentIdx > Len(comments)
    /\ hydratorPc' = "done"
    /\ UNCHANGED <<sourceLines, comments, commentIdx, aiTasks>>
    /\ UNCHANGED exceptHydrator

HydratorNext ==
    \/ FindAllComments
    \/ ExtractTask
    \/ ReturnTasks

HydratorSpec == HydratorInit /\ [][HydratorNext]_vars

----------------------------------------------------------------------------
(* Properties of DependencyTracer                                          *)

Done(c) == calls[c].pc = "done"

Finished(c) == calls[c].pc \in {"done", "failed"}

NoDuplicates(seq) == \A i, j \in 1..Len(seq) : seq[i] = seq[j] => i = j

dependencyPaths(c) == {calls[c].dependencies[i].filePath : i \in 1..Len(calls[c].dependencies)}

dependentPaths(c) == {calls[c].dependents[i].filePath : i \in 1..Len(calls[c].dependents)}

\* C1: for all files A and B, if B appears in analyzeImpact(A).dependencies
\* then A appears in analyzeImpact(B).dependents.
C1_ForwardImpliesReverse ==
    \A a, b \in CallIds :
        (Done(a) /\ Done(b) /\ calls[b].absolutePath \in dependencyPaths(a))
            => calls[a].absolutePath \in dependentPaths(b)

\* C2: on any finite import graph, cycles included, the forward traversal
\* terminates, and within one query no file has its import list expanded
\* more than once.
C2_TraversalTerminatesOnce ==
    /\ \A c \in CallIds : (calls[c].pc = "traverse") ~> (calls[c].pc # "traverse")
    /\ [](\A c \in CallIds : NoDuplicates(calls[c].expanded))

\* a query on the import cycle a -> b -> c -> a has returned, each of the
\* three files expanded
C2_Witness ==
    \E c \in CallIds :
        /\ disk = CycleProject
        /\ Done(c)
        /\ Len(calls[c].expanded) = 3
        /\ calls[c].absolutePath \in dependencyPaths(c)

\* C3: every file recorded in the dependencies lies within maxDepth (3)
\* resolved-import hops of the target along the traversal.
C3_WithinMaxDepth ==
    \A c \in CallIds : \A i \in 1..Len(calls[c].hops) : calls[c].hops[i] <= maxDepth

\* C4: in analyzeImpact(T).dependencies every resolved file path appears
\* at most once.
C4_EachPathOnce ==
    \A c \in CallIds :
        Done(c) => NoDuplicates([i \in 1..Len(calls[c].dependencies) |->
                                    calls[c].dependencies[i].filePath])

\* C5: for every export e of the returned ImpactAnalysis, e.isUsedExternally
\* is true if and only if some dependent has e.name among its importedItems.
C5_UsedExternallyIffImported ==
    \A c \in CallIds :
        Done(c) =>
            \A i \in 1..Len(calls[c].exports) :
                calls[c].exports[i].isUsedExternally
                    <=> \E j \in 1..Len(calls[c].dependents) :
                            calls[c].exports[i].name \in Range(calls[c].dependents[j].importedItems)

\* C6: when the target file does not exist, analyzeImpact fails with the
\* not-found error in the step that follows the existence check: nothing is
\* parsed or added to the parse cache, the visited set is unchanged, no
\* traversal and no scan is started, and the call stays failed.
C6_NotFoundBeforeTraversal ==
    [][\A c \in CallIds :
          /\ (/\ calls[c].pc = "pathExists"
              /\ ~existsSync(disk, calls[c].absolutePath)
              /\ calls'[c] # calls[c])
                => /\ calls'[c].pc = "failed"
                   /\ calls'[c].error = "NotFound"
                   /\ cache' = cache
                   /\ visited' = visited
                   /\ calls'[c].parsed = {}
                   /\ calls'[c].stack = <<>>
                   /\ calls'[c].dependents = <<>>
          /\ (calls[c].pc = "failed" /\ calls[c].error = "NotFound")
                => calls'[c] = calls[c]]_vars

\* a call for a missing file has failed on a tracer whose visited set and
\* parse cache hold the files of an earlier query
C6_Witness ==
    \E c \in CallIds :
        /\ calls[c].pc = "failed"
        /\ calls[c].error = "NotFound"
        /\ calls[c].absolutePath = MissingFile
        /\ visited # {}
        /\ cache # {}

\* C7: two calls of analyzeImpact for the same target on the same tracer,
\* the disk unchanged, return equal results: the same exports, the same
\* dependencies in the same order, the same dependents, or the same failure.
C7_Idempotent ==
    \A a, b \in CallIds :
        (Finished(a) /\ Finished(b) /\ calls[a].absolutePath = calls[b].absolutePath)
            => /\ calls[a].pc = calls[b].pc
               /\ calls[a].error = calls[b].error
               /\ calls[a].exports = calls[b].exports
               /\ calls[a].dependencies = calls[b].dependencies
               /\ calls[a].dependents = calls[b].dependents

\* the second call found the visited set filled by an earlier traversal
\* and returned a non-empty dependency list for the same target
C7_Witness ==
    \E a, b \in CallIds :
        /\ a < b
        /\ Done(a)
        /\ Done(b)
        /\ calls[a].absolutePath = calls[b].absolutePath
        /\ calls[b].found # {}
        /\ calls[b].absolutePath \in calls[b].found
        /\ Len(calls[b].dependencies) > 0

----------------------------------------------------------------------------
(* Properties of GitDiffAnalyzer                                           *)

\* getChangedLines has read the whole of a diff that git delivered
Parsed ==
    /\ gitPc \in {"null", "exists", "locate", "done"}
    /\ issued[Len(issued)].kind = "parse" \/ issued[Len(issued)].ok

ofType(t) == LET Is(l) == l.type = t IN SelectSeq(changedLines, Is)

lineNumbers(ls) == [i \in 1..Len(ls) |-> ls[i].lineNumber]

\* C8: a hunk header with new-file start n followed by k added lines and
\* no context lines yields add events numbered exactly n, n+1, ..., n+k-1.
C8_AddedLinesNumbered ==
    ( /\ Parsed
      /\ Len(hunks) = 1
      /\ \A j \in 1..Len(hunks[1].body) : hunks[1].body[j].tag = "+" )
        => lineNumbers(ofType("add"))
             = [i \in 1..Len(hunks[1].body) |-> hunks[1].newStart + i - 1]

\* the line number the new file has at position j of the body of hunk h;
\* added and context lines advance it, deleted lines do not
cursorAt(h, j) ==
    h.newStart + Cardinality({k \in 1..(j - 1) : h.body[k].tag \in {"+", " "}})

\* C9: the cursor advances on added and context lines and never on deleted
\* lines: a deleted line immediately followed by an added line in the same
\* hunk is reported as one delete event and one add event with the same line
\* number, and no event of type modify is emitted.
C9_ReplacementIsDeleteThenAdd ==
    Parsed =>
        /\ \A l \in Range(changedLines) : l.type # "modify"
        /\ \A i \in 1..Len(hunks) : \A j \in 1..(Len(hunks[i].body) - 1) :
              (hunks[i].body[j].tag = "-" /\ hunks[i].body[j + 1].tag = "+")
                => \E k \in 1..(Len(changedLines) - 1) :
                      /\ changedLines[k] =
                            [lineNumber |-> cursorAt(hunks[i], j), type |-> "delete",
                             content |-> hunks[i].body[j].content]
                      /\ changedLines[k + 1] =
                            [lineNumber |-> cursorAt(hunks[i], j), type |-> "add",
                             content |-> hunks[i].body[j + 1].content]

addedNumbers == Range(lineNumbers(ofType("add")))

occurrences(seq, x) == Cardinality({i \in 1..Len(seq) : seq[i] = x})

\* C10: the added lines that map to the same declaration (same kind, name
\* and start line) produce exactly one CodeBlock, whose changedLineNumbers
\* holds each of those line numbers exactly once, in whatever order the
\* lines come.
C10_OneBlockPerDeclaration ==
    (gitPc = "done" /\ issued[Len(issued)].kind = "parse") =>
        /\ \A i, j \in 1..Len(blocks) : sameBlock(blocks[i], blocks[j]) => i = j
        /\ \A n \in addedNumbers :
              findCodeBlockAtLine(stagedFiles(staged)[fileIdx].path, n) # NoBlock
                => \E i \in 1..Len(blocks) :
                      /\ sameBlock(blocks[i], findCodeBlockAtLine(stagedFiles(staged)[fileIdx].path, n))
                      /\ occurrences(blocks[i].changedLineNumbers, n) = 1
        /\ \A i \in 1..Len(blocks) : \A n \in Range(blocks[i].changedLineNumbers) :
              /\ n \in addedNumbers
              /\ sameBlock(blocks[i], findCodeBlockAtLine(stagedFiles(staged)[fileIdx].path, n))

\* two hunks add the same line of method K.m twice and a second line of it:
\* three add events, one block with two line numbers
C10_Witness ==
    /\ gitPc = "done"
    /\ Len(ofType("add")) = 3
    /\ Cardinality(addedNumbers) = 2
    /\ \E i \in 1..Len(blocks) :
          /\ blocks[i].type = "method"
          /\ Len(blocks[i].changedLineNumbers) = 2

----------------------------------------------------------------------------
(* Properties of ContextFinder                                             *)

Extracted == finderPc \in {"keywords", "done", "failed"}

\* the maximal runs of letters and digits of s, as index pairs
alphanumericRuns(s) ==
    {r \in (1..Len(s)) \X (1..Len(s)) :
        /\ r[1] <= r[2]
        /\ \A k \in r[1]..r[2] : s[k] \in Alphanumerics
        /\ r[1] = 1 \/ s[r[1] - 1] \notin Alphanumerics
        /\ r[2] = Len(s) \/ s[r[2] + 1] \notin Alphanumerics}

\* a run cut down to start at its first letter: the words the code extracts
fromFirstLetter(s, r) ==
    LET letters == {k \in r[1]..r[2] : s[k] \in Letters}
    IN  IF letters = {} THEN <<>> ELSE SubSeq(s, firstIndex(letters), r[2])

\* the pieces of a word between one capital (or the start) and the next
camelComponents(word) ==
    {SubSeq(word, a, b) : <<a, b>> \in
        {p \in (1..Len(word)) \X (1..Len(word)) :
            /\ p[1] <= p[2]
            /\ p[1] = 1 \/ isUpper(word[p[1]])
            /\ p[2] = Len(word) \/ isUpper(word[p[2] + 1])
            /\ \A k \in (p[1] + 1)..p[2] : ~isUpper(word[k])}}

keywordsOf(word) ==
    IF Len(word) >= 2
    THEN {toLowerCase(word)} \cup {toLowerCase(c) : c \in {c \in camelComponents(word) : Len(c) >= 2}}
    ELSE {}

ExampleInput == <<"o", "p", "t", "i", "m", "i", "z", "e", " ", "g", "e", "t", "U", "s", "e", "r", "P", "r", "o", "f", "i", "l", "e", " ", "p", "e", "r", "f", "o", "r", "m", "a", "n", "c", "e">>

ExampleKeywords ==
    {<<"o", "p", "t", "i", "m", "i", "z", "e">>,
     <<"g", "e", "t", "u", "s", "e", "r", "p", "r", "o", "f", "i", "l", "e">>,
     <<"u", "s", "e", "r">>,
     <<"p", "r", "o", "f", "i", "l", "e">>,
     <<"p", "e", "r", "f", "o", "r", "m", "a", "n", "c", "e">>}

\* C11 as stated: after extractKeywords, every alphanumeric run of length >= 2 of
\* the input is a keyword in lower case, so is each of its camel-case components
\* of length >= 2, no keyword is listed twice, and the example input yields
\* optimize, getuserprofile, user, profile and performance.
C11_EveryAlphanumericRun ==
    Extracted =>
        /\ \A r \in alphanumericRuns(userInput) :
               keywordsOf(SubSeq(userInput, r[1], r[2])) \subseteq Range(keywords)
        /\ NoDuplicates(keywords)
        /\ userInput = ExampleInput => ExampleKeywords \subseteq Range(keywords)

\* C11 amended: the same of every alphanumeric run taken from its first letter
\* (a run's leading digits are dropped, a run without a letter gives nothing).
C11_EveryLetterLedRun ==
    Extracted =>
        /\ \A r \in alphanumericRuns(userInput) :
               keywordsOf(fromFirstLetter(userInput, r)) \subseteq Range(keywords)
        /\ NoDuplicates(keywords)
        /\ userInput = ExampleInput => ExampleKeywords \subseteq Range(keywords)

C11_Witness ==
    /\ finderPc = "keywords"
    /\ userInput = ExampleInput
    /\ ExampleKeywords \subseteq Range(keywords)

Matched == finderPc = "done"

\* how many of the names contain the keyword, compared in lower case
containing(names, keyword) ==
    Cardinality({i \in 1..Len(names) :
                    names[i] # None /\ includes(toLowerCase(names[i]), keyword)})

\* the points the claim awards a file for one keyword
awarded(file, keyword) ==
    (IF includes(toLowerCase(basename(file.filePath)), keyword) THEN 10
     ELSE IF includes(toLowerCase(file.relativePath), keyword) THEN 5 ELSE 0)
    + 8 * containing(file.exports, keyword)
    + 6 * containing(file.functions, keyword)
    + 6 * containing(file.interfaces, keyword)

RECURSIVE awardedUpTo(_, _, _)
awardedUpTo(file, kws, n) ==
    IF n = 0 THEN 0 ELSE awardedUpTo(file, kws, n - 1) + awarded(file, kws[n])

expectedScore(file) == awardedUpTo(file, keywords, Len(keywords))

matchOf(file) == {i \in 1..Len(matches) : matches[i].file = file}

\* C12: when findMatchingFiles has returned, the score reported for a file is the
\* sum over the keywords of 10 for a file-name hit, otherwise 5 for a path hit,
\* plus 8 per exported name, 6 per function name and 6 per interface name that
\* contains the keyword; a file without a match record has the sum 0; and
\* userProfile.ts scores at least 10 against the keyword user.
C12_ScoreIsSumOfTiers ==
    Matched =>
        \A k \in 1..Len(projectMap.files) :
            LET file == projectMap.files[k]
            IN  /\ \A i \in matchOf(file) : matches[i].matchScore = expectedScore(file)
                /\ matchOf(file) = {} => expectedScore(file) = 0
                /\ (file.filePath = UserProfileTs /\ <<"u", "s", "e", "r">> \in Range(keywords))
                       => \E i \in matchOf(file) : matches[i].matchScore >= 10

C12_Witness ==
    /\ Matched
    /\ keywords = <<<<"u", "s", "e", "r">>>>
    /\ \E i \in 1..Len(matches) :
           /\ matches[i].file.filePath = UserProfileTs
           /\ matches[i].matchScore = 10
    /\ \E i \in 1..Len(matches) : matches[i].matchScore = 14

indexIn(files, file) == CHOOSE k \in 1..Len(files) : files[k] = file

\* C13: findMatchingFiles returns exactly the inventory files whose score is
\* greater than 0, each once, in non-increasing order of score, and files of equal
\* score in the order the inventory has them.
C13_PositiveSortedStable ==
    Matched =>
        /\ \A k \in 1..Len(projectMap.files) :
               Cardinality(matchOf(projectMap.files[k]))
                   = IF expectedScore(projectMap.files[k]) > 0 THEN 1 ELSE 0
        /\ \A i \in 1..Len(matches) : matches[i].file \in Range(projectMap.files)
        /\ \A i, j \in 1..Len(matches) :
               i < j =>
                   /\ matches[i].matchScore >= matches[j].matchScore
                   /\ matches[i].matchScore = matches[j].matchScore
                          => indexIn(projectMap.files, matches[i].file)
                                 < indexIn(projectMap.files, matches[j].file)

C13_Witness ==
    /\ Matched
    /\ Len(projectMap.files) = 3
    /\ Len(matches) = 2
    /\ matches[1].matchScore = matches[2].matchScore
    /\ matches[1].file = projectMap.files[2]
    /\ matches[2].file = projectMap.files[3]

----------------------------------------------------------------------------
(* Properties of DependencyTracer, continued                               *)

\* the import declaration the traversal of call c handles next, if any
atImport(c) ==
    /\ calls[c].pc = "traverse"
    /\ Top(calls[c].stack).entered
    /\ Top(calls[c].stack).idx <= Len(FileAt(disk, Top(calls[c].stack).file).imports)

currentImport(c) ==
    FileAt(disk, Top(calls[c].stack).file).imports[Top(calls[c].stack).idx]

\* nothing exists at any of the paths resolution probes for the specifier
noProbeExists(currentDir, moduleSpecifier) ==
    \A e \in 1..Len(possibleExtensions) :
        LET probe == pathResolve(currentDir, moduleSpecifier \o possibleExtensions[e])
        IN  \A i \in 1..Len(disk) :
                /\ disk[i].path # probe
                /\ ~startsWith(disk[i].path, probe \o <<"/">>)

relativeAndMissing(c) ==
    /\ atImport(c)
    /\ startsWith(currentImport(c).spec, <<".">>)
    /\ noProbeExists(dirname(Top(calls[c].stack).file), currentImport(c).spec)

\* C14: a relative import none of whose probed paths exists resolves to None, and
\* the step that handles it adds no dependency entry and raises nothing: the
\* traversal goes on with the next import.
C14_MissingImportSkipped ==
    [][\A c \in CallIds :
          relativeAndMissing(c) =>
              /\ resolveImportPath(disk, dirname(Top(calls[c].stack).file),
                                   currentImport(c).spec) = None
              /\ calls'[c].dependencies = calls[c].dependencies
              /\ calls'[c].pc = "traverse"
              /\ calls'[c].error = ""]_vars

\* analyzeImpact has completed for a target one of whose imports is missing
C14_Witness ==
    \E c \in CallIds :
        /\ Done(c)
        /\ calls[c].error = ""
        /\ \E i \in 1..Len(FileAt(disk, calls[c].absolutePath).imports) :
               LET imp == FileAt(disk, calls[c].absolutePath).imports[i]
               IN  /\ startsWith(imp.spec, <<".">>)
                   /\ noProbeExists(dirname(calls[c].absolutePath), imp.spec)
        /\ Len(calls[c].dependencies) > 0

----------------------------------------------------------------------------
(* Properties of analyzeStagedChanges                                      *)

gitFailed == \E i \in 1..Len(issued) : issued[i].kind \in {"list", "diff"} /\ ~issued[i].ok

\* C15: once a git command of analyzeStagedChanges (the listing or a per-file
\* diff) has failed because the directory is not a repository, the call has
\* failed with the environment error; it neither goes on nor returns a
\* DiffAnalysis.
C15_GitFailureSurfaces ==
    gitFailed => (gitPc = "failed" /\ gitError = "NotGitRepository")

requestsFor(filePath) ==
    {i \in 1..Len(issued) : issued[i].kind \in {"diff", "parse"} /\ issued[i].path = filePath}

reportsOf(filePath) ==
    {i \in 1..Len(analysis.fileChanges) : analysis.fileChanges[i].relativePath = filePath}

deletedSources ==
    {staged[i].path : i \in {i \in 1..Len(staged) :
                                staged[i].status = "D" /\ isSourceFile(staged[i].path)}}

----------------------------------------------------------------------------
(* Properties of TaskHydrator                                              *)

Hydrated == hydratorPc = "done"

\* the comments that carry a marker with a description
markers == {i \in 1..Len(comments) : markerMatches(comments[i].text) # {}}

DiffKinds == {"function", "arrow", "method", "class", "interface"}

BlockKinds == {"function", "arrow", "method", "class"}

\* the lines after line m on which a declaration of one of the kinds starts
following(kinds, m) ==
    {n \in (m + 1)..Len(sourceLines) :
        \E i \in 1..Len(sourceLines[n].nodes) : sourceLines[n].nodes[i].kind \in kinds}

tasksAt(m) == {t \in 1..Len(aiTasks) : aiTasks[t].line = m}

\* the marker at line m has exactly one task, attributed to a declaration of
\* one of the kinds on the nearest following line that starts one; it has no
\* task when no such line follows
attributedToNearest(kinds, m) ==
    IF following(kinds, m) = {}
    THEN tasksAt(m) = {}
    ELSE /\ Cardinality(tasksAt(m)) = 1
         /\ \A t \in tasksAt(m) :
               /\ aiTasks[t].codeBlock.startLine = firstIndex(following(kinds, m))
               /\ aiTasks[t].codeBlock.type \in kinds
               /\ \E i \in 1..Len(sourceLines[aiTasks[t].codeBlock.startLine].nodes) :
                     LET node == sourceLines[aiTasks[t].codeBlock.startLine].nodes[i]
                     IN  node.kind = aiTasks[t].codeBlock.type
                         /\ node.name = aiTasks[t].codeBlock.name

----------------------------------------------------------------------------
(* Properties of the reverse scan of DependencyTracer                      *)

\* the listed files other than the target one of whose import declarations
\* resolves to the target
importersOf(targetPath) ==
    {file \in Range(globby(disk)) \ {targetPath} :
        \E i \in 1..Len(FileAt(disk, file).imports) :
            resolveImportPath(disk, dirname(file), FileAt(disk, file).imports[i].spec)
                = targetPath}

recordsOf(c, file) ==
    {i \in 1..Len(calls[c].dependents) : calls[c].dependents[i].filePath = file}

\* C17: the dependents of a finished analyzeImpact(T) hold exactly one record
\* for every listed source file other than T with an import declaration that
\* resolves to T, whatever its import clause, none for any other file, and
\* none for T.
C17_OneRecordPerImportingFile ==
    \A c \in CallIds :
        Done(c) =>
            /\ \A file \in importersOf(calls[c].absolutePath) :
                  Cardinality(recordsOf(c, file)) = 1
            /\ \A i \in 1..Len(calls[c].dependents) :
                  calls[c].dependents[i].filePath \in importersOf(calls[c].absolutePath)

\* the names a file imports from the target: default bindings and the names
\* of named imports, over all its import declarations that resolve to it
namesFrom(file, targetPath) ==
    UNION { Range(importedNames(FileAt(disk, file).imports[i])) :
              i \in {j \in 1..Len(FileAt(disk, file).imports) :
                       resolveImportPath(disk, dirname(file),
                                         FileAt(disk, file).imports[j].spec) = targetPath} }

\* C18: in every record of the dependents of a finished analyzeImpact,
\* usageCount is the number of distinct names the file imports from the target.
C18_UsageCountsDistinctNames ==
    \A c \in CallIds :
        Done(c) =>
            \A i \in 1..Len(calls[c].dependents) :
                calls[c].dependents[i].usageCount
                    = Cardinality(namesFrom(calls[c].dependents[i].filePath,
                                            calls[c].absolutePath))

\* the scan of a listing in which a file that cannot be loaded contributes
\* no edge
loadable(d, files) == SelectSeq(files, LAMBDA f : canRead(d, f))

\* C19: when the reverse scan of analyzeImpact meets a file that cannot be
\* loaded, the scan goes on over the remaining files and analyzeImpact returns
\* a result whose dependents are those of the files that could be loaded.
C19_ScanSurvivesLoadFailure ==
    [][\A c \in CallIds :
          (/\ calls[c].pc = "globby"
           /\ calls'[c].pc # "globby"
           /\ unloadable(disk, globby(disk), calls[c].absolutePath) # {})
          => /\ calls'[c].pc = "done"
             /\ calls'[c].dependents
                  = scanDependents(disk, loadable(disk, globby(disk)), calls[c].absolutePath)]_vars

----------------------------------------------------------------------------
(* Properties of DependencyTracer under interleaved calls                  *)

\* analyzeDependencies (lines 640-691) run to its end from a given visited
\* set: the dependency list it returns and the visited set it leaves;
\* ok is FALSE when a read throws on the way
RECURSIVE analyzeDependencies(_, _, _, _)
RECURSIVE forEachImport(_, _, _, _, _)
analyzeDependencies(d, filePath, depth, v) ==
    IF tooDeep(depth) \/ alreadyVisited(v, filePath)
    THEN [deps |-> <<>>, visited |-> v, ok |-> TRUE]
    ELSE forEachImport(d, filePath, depth, 1,
                       [deps |-> <<>>, visited |-> v \cup {filePath}, ok |-> TRUE])

forEachImport(d, filePath, depth, idx, acc) ==
    IF ~acc.ok \/ idx > Len(FileAt(d, filePath).imports) THEN acc
    ELSE Value(FileAt(d, filePath).imports[idx], LAMBDA imp :
         Value(resolveImportPath(d, dirname(filePath), imp.spec), LAMBDA resolvedPath :
           IF ~isLocalSpecifier(imp.spec)
              \/ resolvedPath = None
              \/ ~includes(resolvedPath, rootPath)
           THEN forEachImport(d, filePath, depth, idx + 1, acc)
           ELSE IF ~canRead(d, resolvedPath)
           THEN [acc EXCEPT !.ok = FALSE]
           ELSE IF mayRecurse(depth)
           THEN Value(analyzeDependencies(d, resolvedPath, depth + 1, acc.visited),
                      LAMBDA sub :
                    forEachImport(d, filePath, depth, idx + 1,
                        [deps |-> acc.deps \o <<DependencyEntry(d, resolvedPath, imp)>>
                                           \o sub.deps,
                         visited |-> sub.visited,
                         ok |-> sub.ok]))
           ELSE forEachImport(d, filePath, depth, idx + 1,
                    [acc EXCEPT !.deps = acc.deps \o <<DependencyEntry(d, resolvedPath, imp)>>])))

\* the dependency list of analyzeImpact(target) when it runs alone on a new
\* DependencyTracer
dependenciesAlone(target) == analyzeDependencies(disk, target, 0, {}).deps

\* C21: when calls of analyzeImpact on one DependencyTracer are interleaved at
\* their await points, each call that returns has the dependency list it
\* returns when it runs alone: no traversal skips or admits a file because of
\* visited entries written by another call.
C21_VisitedScopedToCall ==
    \A c \in CallIds :
        Done(c) => calls[c].dependencies = dependenciesAlone(calls[c].absolutePath)

\* the second call ran its traversal and returned while the first was still
\* waiting in its reverse scan; it found the visited set filled by the first
\* and lists files the first had visited
C21_Witness ==
    \E a, b \in CallIds :
        /\ a < b
        /\ calls[a].pc \in {"importGlobby", "globby"}
        /\ Done(b)
        /\ calls[a].absolutePath # calls[b].absolutePath
        /\ calls[b].found # {}
        /\ dependencyPaths(b) \cap calls[b].found # {}

----------------------------------------------------------------------------
(* Properties of resolveImportPath                                         *)

\* a specifier that starts with neither '.' nor '/' and is not aliased
isExternal(moduleSpecifier) ==
    /\ ~startsWith(moduleSpecifier, <<".">>)
    /\ ~startsWith(moduleSpecifier, <<"/">>)
    /\ ~startsWith(moduleSpecifier, AliasPrefix)

\* the project without the import declarations of external specifiers
withoutExternal(d) ==
    [i \in 1..Len(d) |->
        [d[i] EXCEPT !.imports = SelectSeq(@, LAMBDA imp : ~isExternal(imp.spec))]]

\* C22: an import whose specifier starts with neither '.' nor '/' and is not
\* aliased resolves to None in the forward traversal and in the reverse scan,
\* whatever files are on disk: the dependencies and the dependents of a
\* finished analyzeImpact are those of the project without such imports.
C22_ExternalSpecifierIgnored ==
    \A c \in CallIds :
        Done(c) =>
            /\ calls[c].dependencies
                 = analyzeDependencies(withoutExternal(disk), calls[c].absolutePath, 0, {}).deps
            /\ calls[c].dependents
                 = scanDependents(withoutExternal(disk), globby(disk), calls[c].absolutePath)

\* the files an alias import of the file resolves to inside the project
aliasTargets(file) ==
    {resolveImportPath(disk, dirname(file), FileAt(disk, file).imports[i].spec) :
        i \in {j \in 1..Len(FileAt(disk, file).imports) :
                 startsWith(FileAt(disk, file).imports[j].spec, AliasPrefix)}}
    \cap {p \in FilePaths(disk) : startsWith(p, rootPath \o <<"/">>)}

\* C23: an import whose specifier starts with '@/' is resolved from the
\* project root, and the file it resolves to inside the project is recorded in
\* the dependencies of a finished analyzeImpact of the importing file.
C23_AliasImportIsDependency ==
    \A c \in CallIds :
        Done(c) => aliasTargets(calls[c].absolutePath) \subseteq dependencyPaths(c)

----------------------------------------------------------------------------
(* Properties of findCodeBlockAtLine                                       *)

\* the declarations of the staged files whose body holds a return statement
\* with a JSX expression: f and g of src/v.tsx
returnsMarkup(filePath, n) == filePath = VTsx /\ n \in {2, 6}

\* C24: a CodeBlock of a function or of an arrow function is typed component
\* exactly when the body of the declaration holds a return statement whose
\* expression is JSX, and function otherwise; `return (` and `<` in a
\* comparison do not make it a component.
C24_ComponentIffReturnsMarkup ==
    \A i \in 1..Len(analysis.fileChanges) :
        \A j \in 1..Len(analysis.fileChanges[i].affectedBlocks) :
            LET block == analysis.fileChanges[i].affectedBlocks[j]
            IN  block.type \in {"function", "component"}
                    => (block.type = "component"
                            <=> returnsMarkup(analysis.fileChanges[i].relativePath, block.node))

\* the nodes findCodeBlockAtLine returns a block for
isDeclaration(n) ==
    \/ sourceNodes[n].kind \in {"FunctionDeclaration", "MethodDeclaration",
                                "ClassDeclaration", "InterfaceDeclaration"}
    \/ sourceNodes[n].kind = "VariableDeclaration" /\ sourceNodes[n].arrow

\* the line begins inside the text of a declaration (the text of a node
\* reaches from the end of the token before it to its own end)
enclosed(lineNumber) ==
    \E n \in NodeIds : isDeclaration(n) /\ containsPos(n, posOfLine(lineNumber, 0))

blocksWith(bs, lineNumber) ==
    {i \in 1..Len(bs) : lineNumber \in Range(bs[i].changedLineNumbers)}

addsOf(ls) == {ls[i].lineNumber : i \in {j \in 1..Len(ls) : ls[j].type = "add"}}

----------------------------------------------------------------------------
(* Properties of the entries of the dependency list                        *)

underRoot(p) == startsWith(p, rootPath \o <<"/">>)

\* C26: no entry of the dependencies of a finished analyzeImpact has a path
\* outside the project root directory, and no file outside it is traversed;
\* a path that merely has rootPath as a prefix of a sibling's name or as a
\* substring is outside.
C26_DependenciesUnderRoot ==
    \A c \in CallIds :
        Done(c) =>
            /\ \A p \in dependencyPaths(c) : underRoot(p)
            /\ \A p \in Range(calls[c].expanded) : underRoot(p)

IndexTs == <<"/", "i", "n", "d", "e", "x", ".", "t", "s">>

\* the index files of the directories that the relative imports of the file name
indexFilesOf(file) ==
    {pathResolve(dirname(file), FileAt(disk, file).imports[i].spec) \o IndexTs :
        i \in {j \in 1..Len(FileAt(disk, file).imports) :
                 LET spec == FileAt(disk, file).imports[j].spec
                 IN  /\ startsWith(spec, <<".">>)
                     /\ isDirectory(disk, pathResolve(dirname(file), spec))
                     /\ isFile(disk, pathResolve(dirname(file), spec) \o IndexTs)}}

\* C27: a path returned by resolveImportPath is a regular file, never a
\* directory: an import that names a directory holding index.ts resolves to
\* that index file, and analyzeImpact of a file with such an import returns
\* with the index file among its dependencies.
C27_ResolvesToIndexFile ==
    \A c \in CallIds :
        (Finished(c) /\ isFile(disk, calls[c].absolutePath)
                     /\ indexFilesOf(calls[c].absolutePath) # {})
            => /\ Done(c)
               /\ indexFilesOf(calls[c].absolutePath) \subseteq dependencyPaths(c)
               /\ \A p \in dependencyPaths(c) : isFile(disk, p)

----------------------------------------------------------------------------
(* Properties of getChangedLines                                           *)

zeroContext(hs) == \A i \in 1..Len(hs) : \A j \in 1..Len(hs[i].body) : hs[i].body[j].tag # " "

\* the line numbers of the added lines of the hunks: consecutive from the
\* new-file start of each hunk
RECURSIVE addedLinesOf(_)
addedLinesOf(hs) ==
    IF hs = <<>> THEN <<>>
    ELSE [i \in 1..countTag(Head(hs).body, "+") |-> Head(hs).newStart + i - 1]
         \o addedLinesOf(Tail(hs))

RECURSIVE removedLinesOf(_)
removedLinesOf(hs) ==
    IF hs = <<>> THEN 0
    ELSE countTag(Head(hs).body, "-") + removedLinesOf(Tail(hs))

\* C28: for every hunk of a zero-context diff, getChangedLines emits one add
\* event per added line of the hunk body and one delete event per removed
\* line, whatever the text of the lines, and the add events of a hunk carry
\* consecutive line numbers from the hunk's new-file start.
C28_OneEventPerChangedLine ==
    (Parsed /\ zeroContext(hunks)) =>
        /\ lineNumbers(ofType("add")) = addedLinesOf(hunks)
        /\ Len(ofType("delete")) = removedLinesOf(hunks)

\* C29: the target of a finished analyzeImpact is not an entry of its own
\* dependency list, also when it lies on an import cycle.
C29_TargetNotItsOwnDependency ==
    \A c \in CallIds : Done(c) => calls[c].absolutePath \notin dependencyPaths(c)

----------------------------------------------------------------------------
(* Properties of determineFileType                                         *)

Roles == {"hook", "component", "service", "type", "util", "other"}

\* the basename starts with `use` followed by an upper-case letter
isHookName(filePath) ==
    LET base == basename(filePath)
    IN  Len(base) >= 4 /\ SubSeq(base, 1, 3) = <<"u", "s", "e">> /\ isUpper(base[4])

\* the rules in their order, the first that matches wins
roleOf(d, filePath) ==
    LET fileName == toLowerCase(basename(filePath))
        content == FileAt(d, filePath).has
        rules ==
          << <<isHookName(filePath), "hook">>,
             <<\/ endsWith(filePath, <<".", "t", "s", "x">>)
               \/ endsWith(filePath, <<".", "j", "s", "x">>)
               \/ ("return (" \in content /\ "<" \in content /\ "/>" \in content),
               "component">>,
             <<hasAny(fileName, {<<"s", "e", "r", "v", "i", "c", "e">>, <<"a", "p", "i">>,
                                 <<"c", "l", "i", "e", "n", "t">>}), "service">>,
             <<includes(fileName, <<"t", "y", "p", "e">>)
               \/ endsWith(fileName, <<".", "d", ".", "t", "s">>), "type">>,
             <<hasAny(fileName, {<<"u", "t", "i", "l">>, <<"h", "e", "l", "p", "e", "r">>,
                                 <<"t", "o", "o", "l">>}), "util">>,
             <<TRUE, "other">> >>
    IN  rules[firstIndex({i \in 1..Len(rules) : rules[i][1]})][2]

\* C30: every dependency of a finished analyzeImpact has exactly one of the
\* six roles, the one of the first rule that matches in the order hook,
\* component, service, type, util, other; a dependency named useAuth.ts is a
\* hook.
C30_FirstMatchingRole ==
    \A c \in CallIds :
        Done(c) =>
            \A i \in 1..Len(calls[c].dependencies) :
                /\ calls[c].dependencies[i].type \in Roles
                /\ calls[c].dependencies[i].type
                     = roleOf(disk, calls[c].dependencies[i].filePath)

============================================================================
